---- MODULE Spec2Model ----
(***************************************************************************)
(* A model of scripts/unified-validator.js: the recursive schema validator *)
(* (validateJson / validateJsonStructure), the paginated fetcher           *)
(* (fetchContracts, fetchGovernanceProposals), the reconciliation          *)
(* (verifyOnChainContracts and its analyze* helpers) and the               *)
(* recommendation derivation (generateRecommendations).                    *)
(*                                                                         *)
(* JavaScript values are tagged records:                                   *)
(*   string   [t |-> "string", s |-> <<characters>>]                       *)
(*   number   [t |-> "number", n |-> Int]                                  *)
(*   boolean  [t |-> "boolean", b |-> BOOLEAN]                             *)
(*   null     [t |-> "null"]                                               *)
(*   array    [t |-> "array", items |-> <<values>>]                        *)
(*   object   [t |-> "object", keys |-> <<own keys, insertion order>>,     *)
(*             val |-> [key |-> value]]                                    *)
(* A JavaScript string is a sequence of one-character strings, so that     *)
(* regular expressions, toUpperCase and parseInt are computed on it.       *)
(***************************************************************************)
EXTENDS Integers, Sequences, FiniteSets, TLC

VARIABLES
    file,        \* contracts.json as validateJsonStructure reads it
    orig,        \* the records of contracts.json as first written
    damage,      \* the one edit since: record index (1-based) -> damaged field path
    data,        \* the parsed collection of the last validateJsonStructure call
    jsonResults, \* this.results.jsonValidation
    jsonRet      \* what validateJsonStructure returned ("none": not called yet)

VARIABLES
    mfetch,      \* fetchContracts('mainnet'): its locals, requests and position
    tfetch,      \* fetchContracts('testnet'), likewise
    gfetch       \* fetchGovernanceProposals: its request and position

VARIABLES
    vpc,                 \* verifyOnChainContracts: where the call stands
    localContracts,      \* its local of that name (loadLocalContracts' result)
    onChainVerification, \* this.results.onChainVerification
    summary,             \* this.results.summary
    recommendations,     \* this.results.recommendations
    verRet,              \* what the last verifyOnChainContracts returned
    runs                 \* calls of verifyOnChainContracts so far

VARIABLES
    argv,                \* process.argv.slice(2)
    options,             \* the options object handed to the constructor
    validator,           \* the constructed instance's own settings
    mpc,                 \* main / validate(): where the call stands
    success,             \* validate(): its local of that name
    validateRet,         \* what validate() returned ("none": not yet)
    exitCode             \* the codes process.exit was called with (<<>>: running)

VARIABLES
    wasmCode,            \* the argument of the calculateWasmHash calls
    wasmHash             \* what the calls returned, in call order

jvars == <<file, orig, damage, data, jsonResults, jsonRet>>
fvars == <<mfetch, tfetch, gfetch>>
vvars == <<vpc, localContracts, onChainVerification, summary, recommendations,
           verRet, runs>>

ovars == <<argv, options, validator, mpc, success, validateRet, exitCode>>
hvars == <<wasmCode, wasmHash>>

vars == <<jvars, fvars, vvars, ovars, hvars>>

-----------------------------------------------------------------------------
(* JavaScript values *)

Str(s) == [t |-> "string", s |-> s]
Num(n) == [t |-> "number", n |-> n]
Bool(b) == [t |-> "boolean", b |-> b]
Null == [t |-> "null"]
Arr(items) == [t |-> "array", items |-> items]
Obj(keys, val) == [t |-> "object", keys |-> keys, val |-> val]

Range(seq) == {seq[i] : i \in DOMAIN seq}

Rep(c, n) == [i \in 1..n |-> c]

\* Names every object inherits from Object.prototype.
ObjectPrototypeKeys ==
    {"constructor", "toString", "valueOf", "hasOwnProperty", "isPrototypeOf",
     "propertyIsEnumerable", "toLocaleString", "__proto__"}

\* `key in data` for an object or array value: own keys (an array's own keys
\* are its indices and "length") and the inherited ones.
HasKey(v, key) ==
    \/ key \in ObjectPrototypeKeys
    \/ IF v.t = "object" THEN key \in Range(v.keys)
       ELSE key \in {ToString(i - 1) : i \in DOMAIN v.items} \cup {"length"}

\* typeof data
typeof(v) == IF v.t \in {"object", "array", "null"} THEN "object" ELSE v.t

\* Object.entries(data): <<key, value>> pairs in insertion order.
Entries(v) ==
    IF v.t = "object" THEN [i \in DOMAIN v.keys |-> <<v.keys[i], v.val[v.keys[i]]>>]
    ELSE [i \in DOMAIN v.items |-> <<ToString(i - 1), v.items[i]>>]

\* data[key] read as a property: undefined is modelled by Null's falsy twin.
Undefined == [t |-> "undefined"]

Get(v, key) ==
    IF v.t = "object" /\ key \in Range(v.keys) THEN v.val[key] ELSE Undefined

\* JavaScript truthiness of a value.
Truthy(v) ==
    CASE v.t = "string" -> v.s # <<>>
      [] v.t = "number" -> v.n # 0
      [] v.t = "boolean" -> v.b
      [] v.t = "null" -> FALSE
      [] v.t = "undefined" -> FALSE
      [] OTHER -> TRUE

\* SameValueZero, the equality of Set.has / Map.has: primitives by value,
\* objects and arrays by reference (two parsed values are never the same one).
SameValueZero(a, b) ==
    /\ a.t = b.t
    /\ a.t \in {"string", "number", "boolean", "null", "undefined"}
    /\ a = b

\* a === b for the values compared here (none is NaN)
StrictEquals(a, b) == SameValueZero(a, b)

-----------------------------------------------------------------------------
(* Characters and the regular expressions of the schema *)

Digits == {"0", "1", "2", "3", "4", "5", "6", "7", "8", "9"}
UpperHexLetters == {"A", "B", "C", "D", "E", "F"}
LowerHexLetters == {"a", "b", "c", "d", "e", "f"}
LowerLetters ==
    {"a", "b", "c", "d", "e", "f", "g", "h", "i", "j", "k", "l", "m", "n",
     "o", "p", "q", "r", "s", "t", "u", "v", "w", "x", "y", "z"}

HashLen == 64

AllIn(s, set) == \A i \in DOMAIN s : s[i] \in set

HasPrefix(s, p) == Len(s) >= Len(p) /\ SubSeq(s, 1, Len(p)) = p

HttpsPrefix == <<"h", "t", "t", "p", "s", ":", "/", "/">>
GenesisChars == <<"G", "e", "n", "e", "s", "i", "s">>
XionPrefix == <<"x", "i", "o", "n">>

PatCodeId == "^[0-9]+$"
PatMainnetHash == "^[A-F0-9]{64}$"
PatTestnetHash == "^[a-fA-F0-9]{64}$"
PatHttps == "^https://"
PatGovernance == "^(Genesis|[0-9]+)$"
PatDeployedBy == "^xion[a-z0-9]+$"
PatDeployedAt == "^\\d{4}-\\d{2}-\\d{2}T\\d{2}:\\d{2}:\\d{2}\\.\\d{3}Z$"

\* The characters deployed_at must carry at each position (1-based): "d" is \d.
DeployedAtShape ==
    <<"d", "d", "d", "d", "-", "d", "d", "-", "d", "d", "T", "d", "d", ":",
      "d", "d", ":", "d", "d", ".", "d", "d", "d", "Z">>

\* new RegExp(pattern).test(s) for the patterns the two schemas use.
RegexTest(pattern, s) ==
    CASE pattern = PatCodeId -> Len(s) >= 1 /\ AllIn(s, Digits)
      [] pattern = PatMainnetHash ->
            Len(s) = HashLen /\ AllIn(s, UpperHexLetters \cup Digits)
      [] pattern = PatTestnetHash ->
            Len(s) = HashLen
            /\ AllIn(s, UpperHexLetters \cup LowerHexLetters \cup Digits)
      [] pattern = PatHttps -> HasPrefix(s, HttpsPrefix)
      [] pattern = PatGovernance ->
            s = GenesisChars \/ (Len(s) >= 1 /\ AllIn(s, Digits))
      [] pattern = PatDeployedBy ->
            /\ HasPrefix(s, XionPrefix)
            /\ Len(s) >= Len(XionPrefix) + 1
            /\ AllIn(SubSeq(s, Len(XionPrefix) + 1, Len(s)),
                     LowerLetters \cup Digits)
      [] pattern = PatDeployedAt ->
            /\ Len(s) = Len(DeployedAtShape)
            /\ \A i \in DOMAIN s :
                  IF DeployedAtShape[i] = "d" THEN s[i] \in Digits
                  ELSE s[i] = DeployedAtShape[i]
      [] OTHER -> FALSE

-----------------------------------------------------------------------------
(* The schemas.  minLength 0 and pattern "" / message "" stand for an absent  *)
(* (undefined, falsy) entry of the schema node.                              *)

StringSchema(minLength, pattern, message) ==
    [type |-> "string", minLength |-> minLength, pattern |-> pattern,
     message |-> message, optional |-> FALSE]

BooleanSchema == [type |-> "boolean", optional |-> FALSE]

ObjectSchema(required, properties, optional) ==
    [type |-> "object", required |-> required, properties |-> properties,
     optional |-> optional]

testnetSchema ==
    ObjectSchema(
        <<"code_id", "hash", "network", "deployed_by", "deployed_at">>,
        [code_id |-> StringSchema(0, PatCodeId, ""),
         hash |-> StringSchema(0, PatTestnetHash,
                               "Testnet hash must be 64 hex characters long"),
         network |-> StringSchema(1, "", ""),
         deployed_by |-> StringSchema(0, PatDeployedBy, ""),
         deployed_at |-> StringSchema(0, PatDeployedAt, "")],
        FALSE)

itemSchema ==
    ObjectSchema(
        <<"name", "description", "code_id", "hash", "release", "author",
          "governance", "deprecated">>,
        [name |-> StringSchema(1, "", ""),
         description |-> StringSchema(0, "", ""),
         code_id |-> StringSchema(0, PatCodeId, ""),
         hash |-> StringSchema(0, PatMainnetHash,
                  "Mainnet hash must be 64 characters long and contain only uppercase hex characters"),
         release |-> ObjectSchema(<<"url", "version">>,
                        [url |-> StringSchema(0, PatHttps, ""),
                         version |-> StringSchema(1, "", "")], FALSE),
         author |-> ObjectSchema(<<"name", "url">>,
                        [name |-> StringSchema(1, "", ""),
                         url |-> StringSchema(0, PatHttps, "")], FALSE),
         governance |-> StringSchema(0, PatGovernance, ""),
         deprecated |-> BooleanSchema,
         testnet |-> [testnetSchema EXCEPT !.optional = TRUE]],
        FALSE)

schema == [type |-> "array", items |-> itemSchema]

-----------------------------------------------------------------------------
(* validateJson.  A call returns Ok or throws: Throw(e) carries the Error,   *)
(* whose message is modelled by a record.  A schema error's message is       *)
(* `${path} ${text}`.                                                        *)

Ok == [ok |-> TRUE]
Throw(e) == [ok |-> FALSE, error |-> e]

SchemaError(path, text) == [kind |-> "schema", path |-> path, text |-> text]
DuplicateError(codeId) == [kind |-> "duplicate", codeId |-> codeId]
OrderError(prevName, prevCodeId, curName, curCodeId) ==
    [kind |-> "order", prevName |-> prevName, prevCodeId |-> prevCodeId,
     curName |-> curName, curCodeId |-> curCodeId]
TypeError == [kind |-> "TypeError"]
UnknownSchemaType(type) == [kind |-> "unknownSchemaType", type |-> type]

Min(S) == CHOOSE x \in S : \A y \in S : x <= y

DigitValue(c) ==
    CASE c = "0" -> 0 [] c = "1" -> 1 [] c = "2" -> 2 [] c = "3" -> 3
      [] c = "4" -> 4 [] c = "5" -> 5 [] c = "6" -> 6 [] c = "7" -> 7
      [] c = "8" -> 8 [] c = "9" -> 9

\* parseInt(s): the leading decimal digits of s; NaN when there is none.
NaN == -1

RECURSIVE ParseDigits(_, _, _)
ParseDigits(s, i, acc) ==
    IF i > Len(s) \/ s[i] \notin Digits THEN acc
    ELSE ParseDigits(s, i + 1, acc * 10 + DigitValue(s[i]))

parseInt(v) ==
    IF v.t = "string" /\ Len(v.s) >= 1 /\ v.s[1] \in Digits
    THEN ParseDigits(v.s, 1, 0)
    ELSE NaN

\* a < b on numbers: false as soon as one side is NaN.
NumLess(a, b) == a # NaN /\ b # NaN /\ a < b

\* schema.properties[key]: the declared property, a member inherited from
\* Object.prototype (truthy, with no type and no optional flag), or undefined.
NoSchema == [type |-> "absent"]
InheritedMember == [type |-> "undefined", optional |-> FALSE]

\* A lookup that finds a string schema under every undeclared key.
PropertySchemaOpen(node, key) ==
    IF key \in DOMAIN node.properties THEN node.properties[key]
    ELSE [type |-> "string", minLength |-> 0, pattern |-> "", message |-> "",
          optional |-> TRUE]

PropertySchema(node, key) ==
    IF key \in DOMAIN node.properties THEN node.properties[key]
    ELSE IF key \in ObjectPrototypeKeys THEN InheritedMember
    ELSE NoSchema

\* The string branch without its pattern test.
validateStringNoPattern(d, node, path) ==
    IF d.t # "string" THEN Throw(SchemaError(path, "must be a string"))
    ELSE IF node.minLength # 0 /\ Len(d.s) < node.minLength
    THEN Throw(SchemaError(path,
            "must be at least " \o ToString(node.minLength) \o " characters"))
    ELSE Ok

validateString(d, node, path) ==
    IF d.t # "string" THEN Throw(SchemaError(path, "must be a string"))
    ELSE IF node.minLength # 0 /\ Len(d.s) < node.minLength
    THEN Throw(SchemaError(path,
            "must be at least " \o ToString(node.minLength) \o " characters"))
    ELSE IF node.pattern # "" /\ ~RegexTest(node.pattern, d.s)
    THEN Throw(SchemaError(path,
            IF node.message # "" THEN node.message
            ELSE "must match pattern: " \o node.pattern))
    ELSE Ok

validateBoolean(d, path) ==
    IF d.t # "boolean" THEN Throw(SchemaError(path, "must be a boolean")) ELSE Ok

\* The duplicate test that never fires.
isDuplicateNever(item, codeIds) == FALSE

\* item.code_id && codeIds.has(item.code_id)
isDuplicate(item, codeIds) ==
    /\ Truthy(Get(item, "code_id"))
    /\ \E c \in codeIds : SameValueZero(c, Get(item, "code_id"))

\* The ordering loop with the comparison turned around.
checkOrderReversed(items) ==
    LET bad == {i \in 2..Len(items) :
                  /\ Truthy(Get(items[i - 1], "code_id"))
                  /\ Truthy(Get(items[i], "code_id"))
                  /\ NumLess(parseInt(Get(items[i - 1], "code_id")),
                             parseInt(Get(items[i], "code_id")))}
    IN  IF bad = {} THEN Ok
        ELSE LET i == Min(bad)
             IN  Throw(OrderError(Get(items[i - 1], "name"),
                                  parseInt(Get(items[i - 1], "code_id")),
                                  Get(items[i], "name"),
                                  parseInt(Get(items[i], "code_id"))))

\* for (let i = 1; i < data.length; i++): throws at the first adjacent pair
\* whose current code_id is numerically below the previous one.
checkOrder(items) ==
    LET bad == {i \in 2..Len(items) :
                  /\ Truthy(Get(items[i - 1], "code_id"))
                  /\ Truthy(Get(items[i], "code_id"))
                  /\ NumLess(parseInt(Get(items[i], "code_id")),
                             parseInt(Get(items[i - 1], "code_id")))}
    IN  IF bad = {} THEN Ok
        ELSE LET i == Min(bad)
             IN  Throw(OrderError(Get(items[i - 1], "name"),
                                  parseInt(Get(items[i - 1], "code_id")),
                                  Get(items[i], "name"),
                                  parseInt(Get(items[i], "code_id"))))

RECURSIVE validateJson(_, _, _)
RECURSIVE validateItems(_, _, _, _, _)
RECURSIVE validateEntries(_, _, _, _)

\* data.forEach((item, index) => ...) from index i (1-based), with the running
\* set codeIds: the duplicate test, then the item's own validation.
validateItems(items, node, path, i, codeIds) ==
    IF i > Len(items) THEN Ok
    ELSE IF items[i].t \in {"null", "undefined"} THEN Throw(TypeError)
    ELSE IF isDuplicate(items[i], codeIds)
    THEN Throw(DuplicateError(Get(items[i], "code_id")))
    ELSE LET r == validateJson(items[i], node,
                               path \o "[" \o ToString(i - 1) \o "]")
         IN  IF ~r.ok THEN r
             ELSE validateItems(items, node, path, i + 1,
                    IF Truthy(Get(items[i], "code_id"))
                    THEN codeIds \cup {Get(items[i], "code_id")}
                    ELSE codeIds)

\* for (const [key, value] of Object.entries(data)) from entry k
validateEntries(entries, node, path, k) ==
    IF k > Len(entries) THEN Ok
    ELSE IF PropertySchema(node, entries[k][1]) = NoSchema
    THEN Throw(SchemaError(path, "has unknown property: " \o entries[k][1]))
    ELSE LET r == validateJson(entries[k][2], PropertySchema(node, entries[k][1]),
                               path \o "." \o entries[k][1])
         IN  IF ~r.ok THEN r ELSE validateEntries(entries, node, path, k + 1)

validateJson(d, node, path) ==
    CASE node.type = "array" ->
            IF d.t # "array" THEN Throw(SchemaError(path, "must be an array"))
            ELSE LET r == validateItems(d.items, node.items, path, 1, {})
                 IN  IF ~r.ok THEN r ELSE checkOrder(d.items)
      [] node.type = "object" ->
            IF typeof(d) # "object" \/ d.t = "null"
            THEN Throw(SchemaError(path, "must be an object"))
            ELSE LET missing == {k \in DOMAIN node.required :
                                    ~HasKey(d, node.required[k])}
                 IN  IF missing # {}
                     THEN Throw(SchemaError(path,
                            "missing required property: "
                                \o node.required[Min(missing)]))
                     ELSE validateEntries(Entries(d), node, path, 1)
      [] node.type = "string" -> validateString(d, node, path)
      [] node.type = "boolean" -> validateBoolean(d, path)
      [] OTHER -> Throw(UnknownSchemaType(node.type))

-----------------------------------------------------------------------------
(* The registry files the validation is run on *)

MaxRecords == 2

Chars1 == <<"1">>
Chars2 == <<"2">>
Chars10 == <<"1", "0">>
Chars01 == <<"0", "1">>

HashA == Rep("A", HashLen)
HashB == Rep("B", HashLen)
HashLowerA == Rep("a", HashLen)

SomeUrl == HttpsPrefix \o <<"x">>
SomeXionAddress == XionPrefix \o <<"1", "q">>
SomeTimestamp ==
    <<"2", "0", "2", "4", "-", "0", "1", "-", "0", "2", "T", "0", "3", ":",
      "0", "4", ":", "0", "5", ".", "0", "0", "6", "Z">>

TestnetConfig(codeId, hash) ==
    Obj(<<"code_id", "hash", "network", "deployed_by", "deployed_at">>,
        [code_id |-> Str(codeId), hash |-> Str(hash),
         network |-> Str(<<"t", "2">>),
         deployed_by |-> Str(SomeXionAddress),
         deployed_at |-> Str(SomeTimestamp)])

\* A record of contracts.json in the shape the README documents.
Contract(codeId, hash, governance, deprecated) ==
    Obj(<<"name", "description", "code_id", "hash", "release", "author",
          "governance", "deprecated">>,
        [name |-> Str(<<"C">> \o codeId),
         description |-> Str(<<"d">>),
         code_id |-> Str(codeId),
         hash |-> Str(hash),
         release |-> Obj(<<"url", "version">>,
                         [url |-> Str(SomeUrl), version |-> Str(<<"v", "1">>)]),
         author |-> Obj(<<"name", "url">>,
                        [name |-> Str(<<"a">>), url |-> Str(SomeUrl)]),
         governance |-> Str(governance),
         deprecated |-> Bool(deprecated)])

\* obj with own key `key` set to value (appended when new).
WithKey(obj, key, value) ==
    Obj(IF key \in Range(obj.keys) THEN obj.keys ELSE Append(obj.keys, key),
        [k \in DOMAIN obj.val \cup {key} |->
            IF k = key THEN value ELSE obj.val[k]])

\* obj with the field at path (one or two keys) set to value.
WithPath(obj, path, value) ==
    IF Len(path) = 1 THEN WithKey(obj, path[1], value)
    ELSE WithKey(obj, path[1], WithKey(obj.val[path[1]], path[2], value))

WithoutKey(obj, key) ==
    Obj(SelectSeq(obj.keys, LAMBDA k : k # key),
        [k \in DOMAIN obj.val \ {key} |-> obj.val[k]])

GoodRecord(codeId) == Contract(codeId, HashA, GenesisChars, FALSE)

\* The records contracts.json is written from: four that satisfy the schema
\* (one with a testnet sub-record, two whose code_ids denote the same number)
\* and three that do not (a code_id that is a number, a missing required
\* key, an undeclared key).
JsonRecords ==
    {GoodRecord(Chars1),
     WithKey(GoodRecord(Chars2), "testnet", TestnetConfig(Chars2, HashLowerA)),
     GoodRecord(Chars10),
     GoodRecord(Chars01),
     WithKey(GoodRecord(Chars1), "code_id", Num(7)),
     WithoutKey(GoodRecord(Chars2), "author"),
     WithKey(GoodRecord(Chars10), "notes", Str(<<"n">>))}

SeqsUpTo(S, n) == UNION {[1..k -> S] : k \in 0..n}

JsonCollections == SeqsUpTo(JsonRecords, MaxRecords)

Unreadable == [t |-> "unreadable"]

\* Values that break a field's type, minimum length or pattern.
Dmg(path, value) == [path |-> path, value |-> value]

MainnetDamages ==
    {Dmg(<<"name">>, Num(7)), Dmg(<<"name">>, Str(<<>>)),
     Dmg(<<"description">>, Num(7)),
     Dmg(<<"code_id">>, Num(7)), Dmg(<<"code_id">>, Str(<<"1", "a">>)),
     Dmg(<<"code_id">>, Str(<<>>)),
     Dmg(<<"hash">>, Num(7)), Dmg(<<"hash">>, Str(HashLowerA)),
     Dmg(<<"hash">>, Str(Rep("A", HashLen - 1))),
     Dmg(<<"release">>, Str(<<"x">>)), Dmg(<<"release">>, Null),
     Dmg(<<"release">>, Arr(<<>>)),
     Dmg(<<"release", "url">>, Num(7)),
     Dmg(<<"release", "url">>, Str(<<"h", "t", "t", "p", ":", "/", "/", "x">>)),
     Dmg(<<"release", "version">>, Num(7)),
     Dmg(<<"release", "version">>, Str(<<>>)),
     Dmg(<<"author">>, Null),
     Dmg(<<"author", "name">>, Bool(TRUE)), Dmg(<<"author", "name">>, Str(<<>>)),
     Dmg(<<"author", "url">>, Null), Dmg(<<"author", "url">>, Str(<<"x">>)),
     Dmg(<<"governance">>, Num(0)),
     Dmg(<<"governance">>, Str(<<"g", "e", "n", "e", "s", "i", "s">>)),
     Dmg(<<"deprecated">>, Str(<<"n", "o">>)), Dmg(<<"deprecated">>, Null)}

TestnetDamages ==
    {Dmg(<<"testnet", "code_id">>, Num(7)),
     Dmg(<<"testnet", "code_id">>, Str(<<"x">>)),
     Dmg(<<"testnet", "hash">>, Null),
     Dmg(<<"testnet", "hash">>, Str(Rep("G", HashLen))),
     Dmg(<<"testnet", "network">>, Num(2)),
     Dmg(<<"testnet", "network">>, Str(<<>>)),
     Dmg(<<"testnet", "deployed_by">>, Num(7)),
     Dmg(<<"testnet", "deployed_by">>, Str(<<"x", "i", "o", "n">>)),
     Dmg(<<"testnet", "deployed_at">>, Num(2024)),
     Dmg(<<"testnet", "deployed_at">>, Str(<<"2", "0", "2", "4">>))}

\* The edits that change a field the record has.
DamagesOf(item) ==
    {dmg \in MainnetDamages \cup TestnetDamages :
        /\ dmg.path[1] \in Range(item.keys)
        /\ Len(dmg.path) = 2 =>
              /\ item.val[dmg.path[1]].t = "object"
              /\ dmg.path[2] \in Range(item.val[dmg.path[1]].keys)}

-----------------------------------------------------------------------------
(* fetchContracts: the paginated fetch of /cosmwasm/wasm/v1/code.  A fetch  *)
(* is a record of the function's locals (paginationKey, allContracts,       *)
(* pageCount), the requests it has sent and the responses it has received,  *)
(* and its position: "idle", "waiting" (a request is in flight),            *)
(* "resolved" (returned allContracts) or "rejected" (rethrew the error).    *)

apiBaseUrl == "https://api.xion-mainnet-1.burnt.com"
apiTestnetBaseUrl == "https://api.xion-testnet-2.burnt.com"

CodePath == "/cosmwasm/wasm/v1/code"

\* encodeURIComponent of one character: letters, digits and - _ . ! ~ * ' ( )
\* stay, every other character becomes its %XX escape.
EscapeOf(c) ==
    CASE c = "+" -> <<"%", "2", "B">>
      [] c = "/" -> <<"%", "2", "F">>
      [] c = "=" -> <<"%", "3", "D">>
      [] c = " " -> <<"%", "2", "0">>
      [] c = "%" -> <<"%", "2", "5">>
      [] OTHER -> <<c>>

RECURSIVE encodeURIComponent(_)
encodeURIComponent(s) ==
    IF s = <<>> THEN <<>>
    ELSE EscapeOf(Head(s)) \o encodeURIComponent(Tail(s))

\* The key put into the URL as it is.
queryOfKeyRaw(key) == key.s

\* `pagination.key=${encodeURIComponent(paginationKey)}`
queryOfKey(key) == encodeURIComponent(key.s)

NoQuery == <<"(none)">>

\* The URL of one request: `${apiUrl}/cosmwasm/wasm/v1/code`, with
\* `?pagination.key=<query>` when paginationKey is truthy.
CodeUrl(apiUrl, key) ==
    [base |-> apiUrl, path |-> CodePath,
     query |-> IF Truthy(key) THEN queryOfKey(key) ELSE NoQuery]

IdleFetch ==
    [pc |-> "idle", apiUrl |-> "", paginationKey |-> Null, allContracts |-> <<>>,
     pageCount |-> 0, requests |-> <<>>, responses |-> <<>>]

\* The call up to its first await: the first pass of the do-loop body up to
\* `await fetch(url)`, with paginationKey = null.
fetchContractsCall(network) ==
    LET apiUrl == IF network = "testnet" THEN apiTestnetBaseUrl ELSE apiBaseUrl
    IN  [pc |-> "waiting", apiUrl |-> apiUrl, paginationKey |-> Null,
         allContracts |-> <<>>, pageCount |-> 1,
         requests |-> <<CodeUrl(apiUrl, Null)>>, responses |-> <<>>]

\* What comes back for a request: the transport failing, a response that is
\* not ok, a body that is not JSON, or a parsed body.
NetworkError == [kind |-> "network"]
HttpError(status) == [kind |-> "http", status |-> status]
BadBody == [kind |-> "badjson"]
Body(json) == [kind |-> "body", json |-> json]

\* data.code_infos || []
CodeInfosOf(json) ==
    IF Truthy(Get(json, "code_infos")) THEN Get(json, "code_infos").items ELSE <<>>

\* data.pagination?.next_key
NextKeyOf(json) ==
    IF Get(json, "pagination").t \in {"null", "undefined"} THEN Undefined
    ELSE Get(Get(json, "pagination"), "next_key")

\* The pages put in front of those already fetched.
accumulateReversed(all, contracts) == contracts \o all

\* allContracts.push(...contracts)
accumulate(all, contracts) == all \o contracts

\* The failure logged and the pages fetched so far returned.
fetchContractsCatchReturns(f, resp) ==
    [f EXCEPT !.pc = "resolved", !.responses = Append(@, resp)]

\* catch (error) { log; throw error }
fetchContractsCatch(f, resp) ==
    [f EXCEPT !.pc = "rejected", !.responses = Append(@, resp)]

\* The loop left after its first page, whatever next_key the page carries.
fetchContractsResumeOnce(f, resp) ==
    IF resp.kind # "body"
    THEN fetchContractsCatch(f, resp)
    ELSE [f EXCEPT !.pc = "resolved", !.paginationKey = NextKeyOf(resp.json),
                   !.allContracts = accumulate(@, CodeInfosOf(resp.json)),
                   !.responses = Append(@, resp)]

\* From `await fetch(url)` returning to the next await or to the end: a
\* failure is logged and rethrown; a page is added, and the loop goes on with
\* the returned next_key while it is truthy.
fetchContractsResume(f, resp) ==
    IF resp.kind # "body"
    THEN fetchContractsCatch(f, resp)
    ELSE LET all == accumulate(f.allContracts, CodeInfosOf(resp.json))
             key == NextKeyOf(resp.json)
         IN  IF Truthy(key)
             THEN [f EXCEPT !.paginationKey = key, !.allContracts = all,
                            !.pageCount = @ + 1,
                            !.requests = Append(@, CodeUrl(f.apiUrl, key)),
                            !.responses = Append(@, resp)]
             ELSE [f EXCEPT !.pc = "resolved", !.paginationKey = key,
                            !.allContracts = all,
                            !.responses = Append(@, resp)]

\* An entry of code_infos
CodeInfo(codeId, dataHash) ==
    Obj(<<"code_id", "data_hash", "creator">>,
        [code_id |-> Str(codeId), data_hash |-> Str(dataHash),
         creator |-> Str(SomeXionAddress)])

\* A response body {code_infos, pagination: {next_key}}
CodePage(infos, nextKey) ==
    Obj(<<"code_infos", "pagination">>,
        [code_infos |-> Arr(infos),
         pagination |-> Obj(<<"next_key">>, [next_key |-> nextKey])])

-----------------------------------------------------------------------------
(* fetchGovernanceProposals: one request; any failure is logged and the     *)
(* function returns [].                                                     *)

ProposalsUrl ==
    [base |-> apiBaseUrl, path |-> "/cosmos/gov/v1/proposals",
     query |-> <<"proposal_status=0">>]

IdleGov == [pc |-> "idle", requests |-> <<>>, responses |-> <<>>, proposals |-> <<>>]

\* The proposals fetch left unstarted.
fetchGovernanceProposalsNotCalled == IdleGov

\* fetchGovernanceProposals() up to `await fetch(...)`
fetchGovernanceProposalsCall ==
    [pc |-> "waiting", requests |-> <<ProposalsUrl>>, responses |-> <<>>,
     proposals |-> <<>>]

\* data.proposals || []
ProposalsOf(json) ==
    IF Truthy(Get(json, "proposals")) THEN Get(json, "proposals").items ELSE <<>>

fetchGovernanceProposalsResume(g, resp) ==
    IF resp.kind # "body"
    THEN [g EXCEPT !.pc = "done", !.responses = Append(@, resp),
                   !.proposals = <<>>]
    ELSE [g EXCEPT !.pc = "done", !.responses = Append(@, resp),
                   !.proposals = ProposalsOf(resp.json)]

-----------------------------------------------------------------------------
(* Strings, Maps and the hash of a code-upload payload *)

UpperAlphabet ==
    <<"A", "B", "C", "D", "E", "F", "G", "H", "I", "J", "K", "L", "M", "N",
      "O", "P", "Q", "R", "S", "T", "U", "V", "W", "X", "Y", "Z">>
LowerAlphabet ==
    <<"a", "b", "c", "d", "e", "f", "g", "h", "i", "j", "k", "l", "m", "n",
      "o", "p", "q", "r", "s", "t", "u", "v", "w", "x", "y", "z">>
DigitAlphabet == <<"0", "1", "2", "3", "4", "5", "6", "7", "8", "9">>

UpperOf(c) ==
    IF \E i \in DOMAIN LowerAlphabet : LowerAlphabet[i] = c
    THEN UpperAlphabet[CHOOSE i \in DOMAIN LowerAlphabet : LowerAlphabet[i] = c]
    ELSE c

\* String.prototype.toUpperCase on a string value
toUpperCase(v) == Str([i \in DOMAIN v.s |-> UpperOf(v.s[i])])

\* value.toUpperCase() throws unless value is a string
HasToUpperCase(v) == v.t = "string"

\* A string of which the program only ever asks whether it equals another:
\* kept as one token.
Text(word) == Str(<<word>>)

\* `${value}` for the values a code_id can be
TemplateString(v) ==
    CASE v.t = "string" -> v.s
      [] v.t = "number" -> <<ToString(v.n)>>
      [] OTHER -> <<v.t>>

\* new Map() filled by items.forEach(c => map.set(c[field], c)), then
\* map.has(key): keys compare by SameValueZero.
MapHasFirst(items, field, key) ==
    /\ items # <<>>
    /\ SameValueZero(Get(items[1], field), key)

MapHas(items, field, key) ==
    \E i \in DOMAIN items : SameValueZero(Get(items[i], field), key)

Max(S) == CHOOSE x \in S : \A y \in S : x >= y

\* map.get(key): a later set of the same key replaced the earlier one.
MapGet(items, field, key) ==
    LET found == {i \in DOMAIN items : SameValueZero(Get(items[i], field), key)}
    IN  IF found = {} THEN Undefined ELSE items[Max(found)]

Base64Alphabet == UpperAlphabet \o LowerAlphabet \o DigitAlphabet \o <<"+", "/">>

Base64Value(c) == (CHOOSE i \in DOMAIN Base64Alphabet : Base64Alphabet[i] = c) - 1

RECURSIVE Base64Bytes(_)
Base64Bytes(v) ==
    IF Len(v) >= 4
    THEN LET n == v[1] * 262144 + v[2] * 4096 + v[3] * 64 + v[4]
         IN  <<n \div 65536, (n \div 256) % 256, n % 256>>
                \o Base64Bytes(SubSeq(v, 5, Len(v)))
    ELSE IF Len(v) = 3
    THEN LET n == v[1] * 4096 + v[2] * 64 + v[3]
         IN  <<n \div 1024, (n \div 4) % 256>>
    ELSE IF Len(v) = 2
    THEN <<(v[1] * 64 + v[2]) \div 16>>
    ELSE <<>>

\* Buffer.from(s, 'base64'): decoding stops at the first "=", characters
\* outside the alphabet are skipped.
BufferFromBase64(s) ==
    LET pads == {i \in DOMAIN s : s[i] = "="}
        body == IF pads = {} THEN s ELSE SubSeq(s, 1, Min(pads) - 1)
        kept == SelectSeq(body, LAMBDA c : c \in Range(Base64Alphabet))
    IN  Base64Bytes([i \in DOMAIN kept |-> Base64Value(kept[i])])

RECURSIVE SumBytes(_)
SumBytes(b) == IF b = <<>> THEN 0 ELSE b[1] + SumBytes(Tail(b))

\* zlib.gunzipSync, reduced to a container of three header bytes (magic 1f 8b,
\* method 08), the content as stored, and one trailing checksum byte.
GzipHeader == <<31, 139, 8>>

gunzipSync(buffer) ==
    LET content == SubSeq(buffer, 4, Len(buffer) - 1)
    IN  IF /\ Len(buffer) >= 4
           /\ SubSeq(buffer, 1, 3) = GzipHeader
           /\ buffer[Len(buffer)] = SumBytes(content) % 256
        THEN [ok |-> TRUE, value |-> content]
        ELSE Throw([kind |-> "gzip"])

HexAlphabet == DigitAlphabet \o SubSeq(LowerAlphabet, 1, 6)

\* crypto.createHash('sha256').update(bytes).digest('hex'), reduced to a
\* digest of 64 lowercase hex digits that depends on the bytes' sum and count.
sha256hex(bytes) ==
    Str([i \in 1..HashLen |->
            HexAlphabet[((SumBytes(bytes) + (i - 1) * (Len(bytes) - 1)) % 16) + 1]])

\* The digest of the decoded bytes, whatever they hold.
calculateWasmHashRaw(base64WasmCode) ==
    IF base64WasmCode.t # "string" THEN Null
    ELSE toUpperCase(sha256hex(BufferFromBase64(base64WasmCode.s)))

\* Buffer.from throws a TypeError for undefined, null or a number, which the
\* outer catch turns into null.
calculateWasmHash(base64WasmCode) ==
    IF base64WasmCode.t # "string" THEN Null
    ELSE LET wasmBuffer == BufferFromBase64(base64WasmCode.s)
             unzipped == gunzipSync(wasmBuffer)
         IN  IF unzipped.ok THEN toUpperCase(sha256hex(unzipped.value))
             ELSE toUpperCase(sha256hex(wasmBuffer))

getStatusString(status) ==
    CASE status = Text("PROPOSAL_STATUS_UNSPECIFIED") -> Text("Unspecified")
      [] status = Text("PROPOSAL_STATUS_DEPOSIT_PERIOD") -> Text("Deposit Period")
      [] status = Text("PROPOSAL_STATUS_VOTING_PERIOD") -> Text("Voting Period")
      [] status = Text("PROPOSAL_STATUS_PASSED") -> Text("Passed")
      [] status = Text("PROPOSAL_STATUS_REJECTED") -> Text("Rejected")
      [] status = Text("PROPOSAL_STATUS_FAILED") -> Text("Failed")
      [] OTHER -> status

-----------------------------------------------------------------------------
(* verifyOnChainContracts: indexes, discrepancy analysis, recommendations *)

MapSeq(items, F(_)) == [i \in DOMAIN items |-> F(items[i])]

RECURSIVE Flatten(_)
Flatten(seqs) == IF seqs = <<>> THEN <<>> ELSE seqs[1] \o Flatten(Tail(seqs))

\* x.member can be read unless x is null or undefined
Dereferenceable(v) == v.t \notin {"null", "undefined"}

\* localContracts.filter(contract => contract.testnet)
contractsWithTestnet(local) ==
    SelectSeq(local, LAMBDA contract : Truthy(Get(contract, "testnet")))

\* onChainContracts.forEach(... contract.data_hash.toUpperCase() ...) completes
Indexable(chain) ==
    \A i \in DOMAIN chain :
        /\ Dereferenceable(chain[i])
        /\ HasToUpperCase(Get(chain[i], "data_hash"))

missingFromJson(local, chain) ==
    MapSeq(SelectSeq(chain, LAMBDA chainContract :
                ~MapHas(local, "code_id", Get(chainContract, "code_id"))),
           LAMBDA chainContract :
                [codeId |-> Get(chainContract, "code_id"),
                 hash |-> toUpperCase(Get(chainContract, "data_hash")),
                 creator |-> Get(chainContract, "creator")])

missingFromChain(local, chain) ==
    MapSeq(SelectSeq(local, LAMBDA localContract :
                ~MapHas(chain, "code_id", Get(localContract, "code_id"))),
           LAMBDA localContract :
                [codeId |-> Get(localContract, "code_id"),
                 name |-> Get(localContract, "name"),
                 hash |-> Get(localContract, "hash"),
                 governance |-> Get(localContract, "governance"),
                 deprecated |-> Get(localContract, "deprecated")])

\* chainContract && localContract.hash !== chainContract.data_hash.toUpperCase()
hashDiffers(localContract, chain) ==
    LET chainContract == MapGet(chain, "code_id", Get(localContract, "code_id"))
    IN  /\ Truthy(chainContract)
        /\ ~StrictEquals(Get(localContract, "hash"),
                         toUpperCase(Get(chainContract, "data_hash")))

hashMismatches(local, chain) ==
    MapSeq(SelectSeq(local, LAMBDA localContract : hashDiffers(localContract, chain)),
           LAMBDA localContract :
                LET chainContract ==
                        MapGet(chain, "code_id", Get(localContract, "code_id"))
                IN  [codeId |-> Get(localContract, "code_id"),
                     name |-> Get(localContract, "name"),
                     localHash |-> Get(localContract, "hash"),
                     chainHash |-> toUpperCase(Get(chainContract, "data_hash")),
                     governance |-> Get(localContract, "governance")])

MsgStoreCode == Text("/cosmwasm.wasm.v1.MsgStoreCode")

\* No message of any proposal is looked at.
MessagesOfNone(proposal) == <<>>

\* proposal.messages.forEach can run: messages is absent (falsy) or an array
\* of messages whose members can be read.
MessagesOf(proposal) ==
    IF Truthy(Get(proposal, "messages")) THEN Get(proposal, "messages").items
    ELSE <<>>

\* The loops giving up at a store message whose payload has no hash.
AnalyzableWhenHashed(proposals) ==
    \A i \in DOMAIN proposals :
        \A k \in DOMAIN MessagesOf(proposals[i]) :
            LET msg == MessagesOf(proposals[i])[k]
            IN  StrictEquals(Get(msg, "@type"), MsgStoreCode) =>
                    calculateWasmHash(Get(msg, "wasm_byte_code")) # Null

Analyzable(proposals) ==
    \A i \in DOMAIN proposals :
        /\ Dereferenceable(proposals[i])
        /\ Truthy(Get(proposals[i], "messages")) =>
              /\ Get(proposals[i], "messages").t = "array"
              /\ \A k \in DOMAIN MessagesOf(proposals[i]) :
                    Dereferenceable(MessagesOf(proposals[i])[k])

\* The proposalHashMap.set calls of one proposal, in order: <<hash, info>>.
proposalHashes(proposal) ==
    LET msgs == MessagesOf(proposal)
        stores == SelectSeq([idx \in DOMAIN msgs |-> <<idx, msgs[idx]>>],
                    LAMBDA m : /\ StrictEquals(Get(m[2], "@type"), MsgStoreCode)
                               /\ Truthy(calculateWasmHash(Get(m[2], "wasm_byte_code"))))
    IN  MapSeq(stores, LAMBDA m :
            Obj(<<"hash", "info">>,
                [hash |-> calculateWasmHash(Get(m[2], "wasm_byte_code")),
                 info |-> [proposalId |-> Get(proposal, "id"),
                           proposalTitle |-> Get(proposal, "title"),
                           status |-> getStatusString(Get(proposal, "status")),
                           messageIndex |-> m[1]]]))

proposalHashMap(proposals) == Flatten(MapSeq(proposals, proposalHashes))

analyzeGovernanceIssues(local, proposals) ==
    LET map == proposalHashMap(proposals)
        flagged == SelectSeq(local, LAMBDA contract :
                      /\ StrictEquals(Get(contract, "governance"), Str(GenesisChars))
                      /\ MapHas(map, "hash", Get(contract, "hash")))
    IN  MapSeq(flagged, LAMBDA contract :
            [codeId |-> Get(contract, "code_id"),
             name |-> Get(contract, "name"),
             hash |-> Get(contract, "hash"),
             governance |-> Get(contract, "governance"),
             proposal |-> MapGet(map, "hash", Get(contract, "hash")).val["info"]])

analyzeDeprecatedContracts(local, chain) ==
    LET flagged == SelectSeq(local, LAMBDA contract :
                      /\ StrictEquals(Get(contract, "deprecated"), Bool(TRUE))
                      /\ \E i \in DOMAIN chain :
                            StrictEquals(Get(chain[i], "code_id"),
                                         Get(contract, "code_id")))
    IN  MapSeq(flagged, LAMBDA contract :
            [codeId |-> Get(contract, "code_id"),
             name |-> Get(contract, "name"),
             hash |-> Get(contract, "hash"),
             governance |-> Get(contract, "governance"),
             issue |-> "Deprecated contract still exists on-chain"])

\* testnetContracts.find(c => `${c.code_id}` === `${testnetConfig.code_id}`)
findTestnetContract(testnet, testnetConfig) ==
    LET found == {i \in DOMAIN testnet :
                    TemplateString(Get(testnet[i], "code_id"))
                        = TemplateString(Get(testnetConfig, "code_id"))}
    IN  IF found = {} THEN Undefined ELSE testnet[Min(found)]

testnetHashDiffers(testnetContract, testnetConfig) ==
    ~StrictEquals(toUpperCase(Get(testnetContract, "data_hash")),
                  Get(testnetConfig, "hash"))

analyzeTestnetIssues(local, testnet) ==
    LET flagged == SelectSeq(contractsWithTestnet(local), LAMBDA contract :
                      LET testnetConfig == Get(contract, "testnet")
                          testnetContract == findTestnetContract(testnet, testnetConfig)
                      IN  \/ ~Truthy(testnetContract)
                          \/ testnetHashDiffers(testnetContract, testnetConfig))
    IN  MapSeq(flagged, LAMBDA contract :
            LET testnetConfig == Get(contract, "testnet")
                testnetContract == findTestnetContract(testnet, testnetConfig)
            IN  IF ~Truthy(testnetContract)
                THEN [codeId |-> Get(contract, "code_id"),
                      testnetCodeId |-> Get(testnetConfig, "code_id"),
                      name |-> Get(contract, "name"),
                      issue |-> "Testnet contract not found on testnet",
                      expectedHash |-> Get(testnetConfig, "hash")]
                ELSE [codeId |-> Get(contract, "code_id"),
                      testnetCodeId |-> Get(testnetConfig, "code_id"),
                      name |-> Get(contract, "name"),
                      issue |-> "Testnet hash mismatch",
                      expectedHash |-> Get(testnetConfig, "hash"),
                      actualHash |-> toUpperCase(Get(testnetContract, "data_hash"))])

Categories ==
    {"missingFromJson", "missingFromChain", "hashMismatches", "governanceIssues",
     "deprecatedIssues", "testnetIssues"}

\* The discrepancies object after the three loops and the three analyze calls
analyzeDiscrepancies(local, chain, proposals, testnet) ==
    [missingFromJson |-> missingFromJson(local, chain),
     missingFromChain |-> missingFromChain(local, chain),
     hashMismatches |-> hashMismatches(local, chain),
     governanceIssues |-> analyzeGovernanceIssues(local, proposals),
     deprecatedIssues |-> analyzeDeprecatedContracts(local, chain),
     testnetIssues |-> analyzeTestnetIssues(local, testnet)]

summaryOf(local, chain, proposals, testnet, discrepancies) ==
    [totalLocalContracts |-> Len(local),
     totalOnChainContracts |-> Len(chain),
     totalTestnetContracts |-> Len(testnet),
     totalProposals |-> Len(proposals),
     contractsWithTestnet |-> Len(contractsWithTestnet(local)),
     discrepancies |-> [c \in Categories |-> Len(discrepancies[c])]]

\* Every recommendation given the priority medium.
RecommendationMedium(type, priority, message, action) ==
    [type |-> type, priority |-> "medium", message |-> message, action |-> action]

Recommendation(type, priority, message, action) ==
    [type |-> type, priority |-> priority, message |-> message, action |-> action]

\* One push of generateRecommendations: nothing when the category is empty.
recommend(list, type, priority, before, after, action) ==
    IF Len(list) > 0
    THEN <<Recommendation(type, priority,
                          before \o ToString(Len(list)) \o after, action)>>
    ELSE <<>>

\* generateRecommendations(discrepancies) on this.results.recommendations = recs
generateRecommendations(recs, discrepancies) ==
    recs
      \o recommend(discrepancies.missingFromJson, "missing_from_json", "high",
            "Add ", " missing contracts to contracts.json",
            "Review on-chain contracts and add missing entries to contracts.json")
      \o recommend(discrepancies.missingFromChain, "missing_from_chain", "medium",
            "Remove ", " contracts from contracts.json that no longer exist on-chain",
            "Verify contracts are truly removed from chain before removing from JSON")
      \o recommend(discrepancies.hashMismatches, "hash_mismatch", "high",
            "Fix ", " hash mismatches between JSON and on-chain data",
            "Update hash values in contracts.json to match on-chain data")
      \o recommend(discrepancies.governanceIssues, "governance_issue", "medium",
            "Review ", " contracts marked as Genesis but uploaded via proposals",
            "Update governance field to reflect actual proposal ID")
      \o recommend(discrepancies.testnetIssues, "testnet_issue", "medium",
            "Fix ", " testnet configuration issues",
            "Update testnet configurations or verify testnet deployments")

NoData == [t |-> "nodata"]

\* An object without members: {}
EmptyObject == <<>>

\* constructor: this.results.onChainVerification
InitOnChainVerification == [success |-> FALSE, discrepancies |-> EmptyObject]

\* No call of verifyOnChainContracts yet on a new instance
InitVerification ==
    /\ vpc = "idle"
    /\ localContracts = NoData
    /\ onChainVerification = InitOnChainVerification
    /\ summary = EmptyObject
    /\ recommendations = <<>>
    /\ verRet = "none"
    /\ runs = 0

\* No instance has been built
NoValidator == [t |-> "none"]

\* main has not been entered and no instance built
NotStarted ==
    /\ argv = <<>>
    /\ options = EmptyObject
    /\ validator = NoValidator
    /\ mpc = "idle"
    /\ success = TRUE
    /\ validateRet = "none"
    /\ exitCode = <<>>

\* calculateWasmHash has not been called
NotHashed ==
    /\ wasmCode = Undefined
    /\ wasmHash = <<>>

-----------------------------------------------------------------------------
(* The validator instance and validateJsonStructure *)

\* constructor: this.results.jsonValidation
InitJsonResults == [valid |-> FALSE, errors |-> <<>>]

IoError == [kind |-> "io"]

InitJson ==
    /\ orig \in JsonCollections
    /\ file \in {Arr(orig)} \cup (IF orig = <<>> THEN {Unreadable, Obj(<<>>, <<>>)} ELSE {})
    /\ damage = <<>>
    /\ data = NoData
    /\ jsonResults = InitJsonResults
    /\ jsonRet = "none"
    /\ mfetch = IdleFetch
    /\ tfetch = IdleFetch
    /\ gfetch = IdleGov
    /\ InitVerification
    /\ NotStarted
    /\ NotHashed

\* contracts.json is edited before the run: one field of record i gets a
\* value its schema refuses.
CorruptField(i, dmg) ==
    /\ jsonRet = "none"
    /\ file.t = "array"
    /\ i \in DOMAIN file.items
    /\ damage = <<>>
    /\ dmg \in DamagesOf(file.items[i])
    /\ file' = Arr([file.items EXCEPT ![i] = WithPath(@, dmg.path, dmg.value)])
    /\ damage' = [k \in {i} |-> dmg.path]
    /\ UNCHANGED <<orig, data, jsonResults, jsonRet, fvars, vvars>>

\* JSON.parse(fs.readFileSync(contractsPath)) followed by validateJson
readAndValidate(f) ==
    IF f = Unreadable THEN Throw(IoError) ELSE validateJson(f, schema, "")

\* try { ...; valid = true; return true } catch { valid = false;
\* errors.push(message); return false }.  checkTestnetConfigurations only logs.
validateJsonStructure ==
    /\ data' = file
    /\ LET r == readAndValidate(file)
       IN  IF r.ok
           THEN /\ jsonResults' = [jsonResults EXCEPT !.valid = TRUE]
                /\ jsonRet' = "true"
           ELSE /\ jsonResults' = [valid |-> FALSE,
                                   errors |-> Append(jsonResults.errors, r.error)]
                /\ jsonRet' = "false"
    /\ UNCHANGED <<file, orig, damage, fvars, vvars>>

NextJson ==
    \/ \E i \in 1..MaxRecords, dmg \in MainnetDamages \cup TestnetDamages :
          CorruptField(i, dmg) /\ UNCHANGED <<ovars, hvars>>
    \/ /\ jsonRet = "none"
       /\ validateJsonStructure
       /\ UNCHANGED <<ovars, hvars>>

SpecJson == InitJson /\ [][NextJson]_vars

-----------------------------------------------------------------------------
(* What the schema asks of a collection, stated field by field *)

IsString(v, minLength, pattern) ==
    /\ v.t = "string"
    /\ Len(v.s) >= minLength
    /\ pattern # "" => RegexTest(pattern, v.s)

HasExactlyKeys(v, required, optional) ==
    /\ v.t = "object"
    /\ required \subseteq Range(v.keys)
    /\ Range(v.keys) \subseteq required \cup optional

ReleaseConforms(v) ==
    /\ HasExactlyKeys(v, {"url", "version"}, {})
    /\ IsString(v.val["url"], 0, PatHttps)
    /\ IsString(v.val["version"], 1, "")

AuthorConforms(v) ==
    /\ HasExactlyKeys(v, {"name", "url"}, {})
    /\ IsString(v.val["name"], 1, "")
    /\ IsString(v.val["url"], 0, PatHttps)

TestnetConforms(v) ==
    /\ HasExactlyKeys(v, {"code_id", "hash", "network", "deployed_by", "deployed_at"}, {})
    /\ IsString(v.val["code_id"], 0, PatCodeId)
    /\ IsString(v.val["hash"], 0, PatTestnetHash)
    /\ IsString(v.val["network"], 1, "")
    /\ IsString(v.val["deployed_by"], 0, PatDeployedBy)
    /\ IsString(v.val["deployed_at"], 0, PatDeployedAt)

RecordConforms(v) ==
    /\ HasExactlyKeys(v, {"name", "description", "code_id", "hash", "release",
                          "author", "governance", "deprecated"}, {"testnet"})
    /\ IsString(v.val["name"], 1, "")
    /\ IsString(v.val["description"], 0, "")
    /\ IsString(v.val["code_id"], 0, PatCodeId)
    /\ IsString(v.val["hash"], 0, PatMainnetHash)
    /\ ReleaseConforms(v.val["release"])
    /\ AuthorConforms(v.val["author"])
    /\ IsString(v.val["governance"], 0, PatGovernance)
    /\ v.val["deprecated"].t = "boolean"
    /\ "testnet" \in Range(v.keys) => TestnetConforms(v.val["testnet"])

\* The number a string of decimal digits denotes.
RECURSIVE DecimalValue(_)
DecimalValue(s) ==
    IF s = <<>> THEN 0
    ELSE 10 * DecimalValue(SubSeq(s, 1, Len(s) - 1)) + DigitValue(s[Len(s)])

CodeIdOf(v) == v.val["code_id"].s

AllConform(items) == \A i \in DOMAIN items : RecordConforms(items[i])

DistinctCodeIds(items) ==
    \A i, j \in DOMAIN items : i # j => CodeIdOf(items[i]) # CodeIdOf(items[j])

Descends(items, i) ==
    DecimalValue(CodeIdOf(items[i])) < DecimalValue(CodeIdOf(items[i - 1]))

\* all required fields present and well-formed, no unknown field, code_ids
\* unique and in non-decreasing numeric order
CollectionConforms(items) ==
    /\ AllConform(items)
    /\ DistinctCodeIds(items)
    /\ \A i \in 2..Len(items) : ~Descends(items, i)

\* The path validateJson is asked to name for a field of record i (1-based).
FieldPath(i, path) ==
    "[" \o ToString(i - 1) \o "]." \o path[1]
        \o (IF Len(path) = 2 THEN "." \o path[2] ELSE "")

Validated == jsonRet # "none"

\* C1: a collection that satisfies the schema is accepted, and the same
\* collection with one required field changed to break its type, minimum
\* length or pattern is refused with an error naming that field's path.
C1_ValidAcceptedDamagedNamed ==
    /\ (Validated /\ data.t = "array" /\ CollectionConforms(data.items)) =>
            /\ jsonRet = "true"
            /\ jsonResults = [valid |-> TRUE, errors |-> <<>>]
    /\ (Validated /\ CollectionConforms(orig) /\ damage # <<>>) =>
            /\ jsonRet = "false"
            /\ jsonResults.valid = FALSE
            /\ Len(jsonResults.errors) = 1
            /\ jsonResults.errors[1].kind = "schema"
            /\ \A i \in DOMAIN damage :
                    jsonResults.errors[1].path = FieldPath(i, damage[i])

\* A conforming two-record collection whose second record had release.url
\* damaged has been validated.
C1_Witness ==
    /\ Validated
    /\ Len(orig) = 2
    /\ CollectionConforms(orig)
    /\ damage = [k \in {2} |-> <<"release", "url">>]
    /\ jsonRet = "false"

SameCodeId(a, b) ==
    /\ a.t = "object" /\ b.t = "object"
    /\ "code_id" \in Range(a.keys) /\ "code_id" \in Range(b.keys)
    /\ a.val["code_id"] = b.val["code_id"]

HasRepeatedCodeId(items) ==
    \E i, j \in DOMAIN items : i < j /\ SameCodeId(items[i], items[j])

\* C2: a collection in which two elements carry the same code_id value is
\* never accepted, whatever the other elements are.
C2_RepeatedCodeIdRefused ==
    (Validated /\ data.t = "array" /\ HasRepeatedCodeId(data.items)) =>
        /\ jsonRet = "false"
        /\ jsonResults.valid = FALSE
        /\ jsonResults.errors # <<>>

\* Two conforming records with the same code_id, the only defect of the
\* collection, have been validated and refused as a duplicate.
C2_Witness ==
    /\ Validated
    /\ data.t = "array"
    /\ AllConform(data.items)
    /\ HasRepeatedCodeId(data.items)
    /\ \A i \in 2..Len(data.items) : ~Descends(data.items, i)
    /\ jsonRet = "false"
    /\ jsonResults.errors[1].kind = "duplicate"

FirstDescent(items) == Min({i \in 2..Len(items) : Descends(items, i)})

HasDescent(items) == \E i \in 2..Len(items) : Descends(items, i)

RecordOutcome(items, i) ==
    validateJson(items[i], itemSchema, "[" \o ToString(i - 1) \o "]")

ViolatesSchema(items, i) ==
    items[i].t = "object" /\ ~RecordConforms(items[i])

\* C4: when two different records each violate the schema, the validation
\* phase fails and the error list holds a message for each of the two.
C4_EveryViolationReported ==
    (Validated /\ data.t = "array"
        /\ \E i, j \in DOMAIN data.items :
              i # j /\ ViolatesSchema(data.items, i) /\ ViolatesSchema(data.items, j)) =>
        /\ jsonRet = "false"
        /\ \A i \in DOMAIN data.items :
              ViolatesSchema(data.items, i) =>
                \E k \in DOMAIN jsonResults.errors :
                    jsonResults.errors[k] = RecordOutcome(data.items, i).error

-----------------------------------------------------------------------------
(* A call of fetchContracts against a server that answers as it likes *)

MaxPages == 2
MaxPageLen == 1

HashLowerB == Rep("b", HashLen)

KeyPlus == <<"A", "+", "/", "w">>
KeyPad == <<"B", "g", "=", "=">>

\* next_key values that continue the loop, and those that end it
ContinuingKeys == {Str(KeyPlus), Str(KeyPad)}
EndingKeys == {Null, Str(<<>>)}

FetchInfos == {CodeInfo(Chars1, HashLowerA), CodeInfo(Chars2, HashLowerB)}
FetchPages == SeqsUpTo(FetchInfos, MaxPageLen)

\* Bodies with a next page, bodies without (next_key null or "", no
\* pagination member, no code_infos member), and failures.
ContinuingResponses ==
    {Body(CodePage(infos, key)) : infos \in FetchPages, key \in ContinuingKeys}
EndingResponses ==
    {Body(CodePage(infos, key)) : infos \in FetchPages, key \in EndingKeys}
        \cup {Body(Obj(<<"code_infos">>, [code_infos |-> Arr(infos)])) :
                infos \in FetchPages}
        \cup {Body(Obj(<<"pagination">>,
                       [pagination |-> Obj(<<"next_key">>, [next_key |-> Null])]))}
FailureResponses == {NetworkError, HttpError(500), BadBody}

InitFetch ==
    /\ orig = <<>>
    /\ file = Unreadable
    /\ damage = <<>>
    /\ data = NoData
    /\ jsonResults = InitJsonResults
    /\ jsonRet = "none"
    /\ mfetch = IdleFetch
    /\ tfetch = IdleFetch
    /\ gfetch = IdleGov
    /\ InitVerification
    /\ NotStarted
    /\ NotHashed

\* fetchOnChainContracts(): fetchContracts('mainnet') up to its first await
fetchOnChainContracts ==
    /\ mfetch.pc = "idle"
    /\ mfetch' = fetchContractsCall("mainnet")

\* fetchTestnetContracts(): fetchContracts('testnet') up to its first await
fetchTestnetContracts ==
    /\ tfetch.pc = "idle"
    /\ tfetch' = fetchContractsCall("testnet")

\* The request in flight is answered; the server stops paging at MaxPages.
Answers(f, resp) ==
    /\ f.pc = "waiting"
    /\ (resp.kind = "body" /\ Truthy(NextKeyOf(resp.json))) => f.pageCount < MaxPages

MainnetResponse(resp) ==
    /\ Answers(mfetch, resp)
    /\ mfetch' = fetchContractsResume(mfetch, resp)

TestnetResponse(resp) ==
    /\ Answers(tfetch, resp)
    /\ tfetch' = fetchContractsResume(tfetch, resp)

AllResponses == ContinuingResponses \cup EndingResponses \cup FailureResponses

NextFetch ==
    \/ /\ tfetch.pc = "idle"
       /\ fetchOnChainContracts
       /\ UNCHANGED <<jvars, tfetch, gfetch, vvars, ovars, hvars>>
    \/ /\ mfetch.pc = "idle"
       /\ fetchTestnetContracts
       /\ UNCHANGED <<jvars, mfetch, gfetch, vvars, ovars, hvars>>
    \/ \E resp \in AllResponses :
          /\ MainnetResponse(resp)
          /\ UNCHANGED <<jvars, tfetch, gfetch, vvars, ovars, hvars>>
    \/ \E resp \in AllResponses :
          /\ TestnetResponse(resp)
          /\ UNCHANGED <<jvars, mfetch, gfetch, vvars, ovars, hvars>>

SpecFetch == InitFetch /\ [][NextFetch]_vars

-----------------------------------------------------------------------------
(* verifyOnChainContracts, step by step *)

RECURSIVE Reverse(_)
Reverse(seq) == IF seq = <<>> THEN <<>> ELSE Append(Reverse(Tail(seq)), seq[1])

\* The records handed over last first.
loadLocalContractsReversed(f) ==
    IF f = Unreadable THEN Throw(IoError)
    ELSE [ok |-> TRUE,
          value |-> IF f.t = "array" THEN Arr(Reverse(f.items)) ELSE f]

\* loadLocalContracts: JSON.parse(fs.readFileSync(contractsPath, 'utf8')),
\* a failure logged and rethrown
loadLocalContracts(f) ==
    IF f = Unreadable THEN Throw(IoError) ELSE [ok |-> TRUE, value |-> f]

\* A catch that leaves the categories computed so far in the results.
verifyFailsPartially ==
    /\ vpc' = "done"
    /\ onChainVerification' =
            [success |-> FALSE, discrepancies |-> [missingFromJson |-> <<>>]]
    /\ verRet' = "false"
    /\ UNCHANGED <<summary, recommendations>>

\* catch: success = false; return false
verifyFails ==
    /\ vpc' = "done"
    /\ onChainVerification' = [onChainVerification EXCEPT !.success = FALSE]
    /\ verRet' = "false"
    /\ UNCHANGED <<summary, recommendations>>

\* An analysis that fails the run when it finds a discrepancy.
verifyAnalyzesStrictly(testnet) ==
    LET local == localContracts.items
        chain == mfetch.allContracts
        proposals == gfetch.proposals
    IN  IF ~Indexable(chain) \/ ~Indexable(testnet) \/ ~Analyzable(proposals)
        THEN verifyFails
        ELSE LET discrepancies ==
                    analyzeDiscrepancies(local, chain, proposals, testnet)
             IN  IF \E c \in Categories : discrepancies[c] # <<>>
                 THEN verifyFails
                 ELSE /\ vpc' = "done"
                      /\ onChainVerification' =
                            [success |-> TRUE, discrepancies |-> discrepancies]
                      /\ summary' = summaryOf(local, chain, proposals, testnet,
                                              discrepancies)
                      /\ recommendations' =
                            generateRecommendations(recommendations, discrepancies)
                      /\ verRet' = "true"

\* From the index building to `return true`, with testnetContracts = testnet
verifyAnalyzes(testnet) ==
    LET local == localContracts.items
        chain == mfetch.allContracts
        proposals == gfetch.proposals
        discrepancies == analyzeDiscrepancies(local, chain, proposals, testnet)
    IN  IF ~Indexable(chain) \/ ~Indexable(testnet) \/ ~Analyzable(proposals)
        THEN verifyFails
        ELSE /\ vpc' = "done"
             /\ onChainVerification' =
                    [success |-> TRUE, discrepancies |-> discrepancies]
             /\ summary' = summaryOf(local, chain, proposals, testnet, discrepancies)
             /\ recommendations' =
                    generateRecommendations(recommendations, discrepancies)
             /\ verRet' = "true"

\* The call, up to `await Promise.all([...])`: loadLocalContracts runs and may
\* throw before either fetch is started; otherwise both fetches are started.
verifyOnChainContracts ==
    /\ vpc \in {"idle", "done"}
    /\ runs' = runs + 1
    /\ tfetch' = IdleFetch
    /\ IF ~loadLocalContracts(file).ok
       THEN /\ verifyFails
            /\ localContracts' = NoData
            /\ mfetch' = IdleFetch
            /\ gfetch' = IdleGov
       ELSE /\ vpc' = "all"
            /\ localContracts' = loadLocalContracts(file).value
            /\ mfetch' = fetchContractsCall("mainnet")
            /\ gfetch' = fetchGovernanceProposalsCall
            /\ verRet' = "none"
            /\ UNCHANGED <<onChainVerification, summary, recommendations>>
    /\ UNCHANGED jvars

\* Promise.all settles: rejected as soon as the mainnet fetch is, fulfilled
\* when both fetches are.  The call goes on to the testnet fetch or, without
\* testnet sub-records, to the analysis and its return.
verifyAfterPromiseAll ==
    /\ vpc = "all"
    /\ \/ /\ mfetch.pc = "rejected"
          /\ verifyFails
          /\ UNCHANGED tfetch
       \/ /\ mfetch.pc = "resolved"
          /\ gfetch.pc = "done"
          /\ IF \/ localContracts.t # "array"
                \/ \E i \in DOMAIN localContracts.items :
                      ~Dereferenceable(localContracts.items[i])
             THEN verifyFails /\ UNCHANGED tfetch
             ELSE IF Len(contractsWithTestnet(localContracts.items)) > 0
             THEN /\ vpc' = "testnet"
                  /\ tfetch' = fetchContractsCall("testnet")
                  /\ UNCHANGED <<onChainVerification, summary, recommendations,
                                 verRet>>
             ELSE verifyAnalyzes(<<>>) /\ UNCHANGED tfetch
    /\ UNCHANGED <<jvars, mfetch, gfetch, localContracts, runs>>

\* `await this.fetchTestnetContracts()` settles; a rejection is only logged.
verifyAfterTestnet ==
    /\ vpc = "testnet"
    /\ tfetch.pc \in {"resolved", "rejected"}
    /\ verifyAnalyzes(IF tfetch.pc = "resolved" THEN tfetch.allContracts ELSE <<>>)
    /\ UNCHANGED <<jvars, fvars, localContracts, runs>>

GovResponse(resp) ==
    /\ gfetch.pc = "waiting"
    /\ gfetch' = fetchGovernanceProposalsResume(gfetch, resp)

-----------------------------------------------------------------------------
(* One verification run of a registry against what the servers answer *)

KeyNext == <<"n", "x", "t">>

PayloadA == Str(<<"C", "g", "=", "=">>)

StoreCodeMsg(payload) ==
    Obj(<<"@type", "wasm_byte_code">>,
        ("@type" :> MsgStoreCode) @@ ("wasm_byte_code" :> payload))

Proposal(id, status, messages) ==
    Obj(<<"id", "title", "status", "messages">>,
        [id |-> Text(id), title |-> Text("Store code"), status |-> Text(status),
         messages |-> Arr(messages)])

\* Proposal 7 stored the code whose hash is HashA; proposal 8 carries a
\* message of another type and a store message without payload.
Proposal7 == Proposal("7", "PROPOSAL_STATUS_PASSED", <<StoreCodeMsg(PayloadA)>>)
Proposal8 ==
    Proposal("8", "PROPOSAL_STATUS_REJECTED",
             <<Obj(<<"@type">>, ("@type" :> Text("/cosmos.bank.v1beta1.MsgSend"))),
               Obj(<<"@type">>, ("@type" :> MsgStoreCode))>>)

\* Proposal 9: a store message without payload, then one with the payload
\* whose hash is HashA.
Proposal9 ==
    Proposal("9", "PROPOSAL_STATUS_PASSED",
             <<Obj(<<"@type">>, ("@type" :> MsgStoreCode)), StoreCodeMsg(PayloadA)>>)

Chars3 == <<"3">>
Chars5 == <<"5">>
Chars7 == <<"7">>
Chars9 == <<"9">>

\* Registry records: code 1 with the registry's uppercase hash, code 1 with
\* the same digits in lowercase and a testnet sub-record, a deprecated
\* code 2 from proposal 7 with a lowercase testnet hash, and code 3 with the
\* hash of proposal 7's upload but attributed to proposal 9.
VerifyRecords ==
    <<Contract(Chars1, HashA, GenesisChars, FALSE),
      WithKey(Contract(Chars1, HashLowerA, GenesisChars, FALSE),
              "testnet", TestnetConfig(Chars5, HashA)),
      WithKey(Contract(Chars2, HashB, Chars7, TRUE),
              "testnet", TestnetConfig(Chars5, HashLowerA)),
      Contract(Chars3, HashA, Chars9, FALSE)>>

\* The records of list at the positions in S, in the list's order
Selection(list, S) ==
    LET at == SelectSeq([i \in DOMAIN list |-> i], LAMBDA i : i \in S)
    IN  [k \in DOMAIN at |-> list[at[k]]]

\* contracts.json holds up to MaxRecords of the records, or is not an array,
\* or cannot be read.
VerifyFiles ==
    {Arr(Selection(VerifyRecords, S)) :
        S \in {T \in SUBSET DOMAIN VerifyRecords : Cardinality(T) <= MaxRecords}}
        \cup {Unreadable, Obj(<<>>, <<>>)}

VerifyPages ==
    {<<CodeInfo(Chars1, HashLowerA)>>, <<CodeInfo(Chars1, HashLowerB)>>,
     <<CodeInfo(Chars2, HashLowerB)>>, <<CodeInfo(Chars3, HashLowerA)>>}

\* A code_infos entry without data_hash
CodeInfoNoHash == Obj(<<"code_id">>, [code_id |-> Str(Chars3)])

VerifyMainnetResponses ==
    {Body(CodePage(infos, Str(KeyNext))) : infos \in VerifyPages}
        \cup {Body(CodePage(infos, Null)) : infos \in VerifyPages}
        \cup {Body(Obj(<<>>, <<>>)), Body(CodePage(<<CodeInfoNoHash>>, Null)),
              NetworkError, HttpError(502)}

VerifyGovResponses ==
    {NetworkError, Body(Obj(<<>>, <<>>)),
     Body(Obj(<<"proposals">>, [proposals |-> Arr(<<Proposal8, Proposal7>>)])),
     Body(Obj(<<"proposals">>, [proposals |-> Arr(<<Proposal9>>)]))}

VerifyTestnetResponses ==
    {NetworkError, Body(CodePage(<<>>, Null)),
     Body(CodePage(<<CodeInfo(Chars5, HashLowerA)>>, Null)),
     Body(CodePage(<<CodeInfo(Chars5, HashLowerB)>>, Null))}

InitVerify ==
    /\ file \in VerifyFiles
    /\ orig = IF file.t = "array" THEN file.items ELSE <<>>
    /\ damage = <<>>
    /\ data = NoData
    /\ jsonResults = InitJsonResults
    /\ jsonRet = "none"
    /\ mfetch = IdleFetch
    /\ tfetch = IdleFetch
    /\ gfetch = IdleGov
    /\ InitVerification
    /\ NotStarted
    /\ NotHashed

NextVerify ==
    \/ /\ runs = 0
       /\ verifyOnChainContracts
       /\ UNCHANGED <<ovars, hvars>>
    \/ \E resp \in VerifyMainnetResponses :
          /\ MainnetResponse(resp)
          /\ UNCHANGED <<jvars, tfetch, gfetch, vvars, ovars, hvars>>
    \/ \E resp \in VerifyGovResponses :
          /\ GovResponse(resp)
          /\ UNCHANGED <<jvars, mfetch, tfetch, vvars, ovars, hvars>>
    \/ verifyAfterPromiseAll /\ UNCHANGED <<ovars, hvars>>
    \/ \E resp \in VerifyTestnetResponses :
          /\ TestnetResponse(resp)
          /\ UNCHANGED <<jvars, mfetch, gfetch, vvars, ovars, hvars>>
    \/ verifyAfterTestnet /\ UNCHANGED <<ovars, hvars>>

SpecVerify == InitVerify /\ [][NextVerify]_vars

-----------------------------------------------------------------------------
(* fetchContracts: tokens and page order *)

\* What a server reads from the query value: %XX escapes undone, + as space.
RECURSIVE QueryUnescape(_)
QueryUnescape(q) ==
    IF q = <<>> THEN <<>>
    ELSE IF q[1] = "%" /\ Len(q) >= 3
    THEN LET hex == <<q[2], q[3]>>
             c == CASE hex = <<"2", "B">> -> "+"
                    [] hex = <<"2", "F">> -> "/"
                    [] hex = <<"3", "D">> -> "="
                    [] hex = <<"2", "0">> -> " "
                    [] hex = <<"2", "5">> -> "%"
                    [] OTHER -> "?"
         IN  <<c>> \o QueryUnescape(SubSeq(q, 4, Len(q)))
    ELSE <<IF q[1] = "+" THEN " " ELSE q[1]>> \o QueryUnescape(Tail(q))

RECURSIVE PagesInOrder(_)
PagesInOrder(responses) ==
    IF responses = <<>> THEN <<>>
    ELSE PagesInOrder(SubSeq(responses, 1, Len(responses) - 1))
            \o Get(responses[Len(responses)].json, "code_infos").items

FollowsProtocol(f, apiUrl) ==
    f.pc # "idle" =>
        /\ Len(f.requests) >= 1
        /\ f.requests[1] = [base |-> apiUrl, path |-> CodePath, query |-> NoQuery]
        /\ \A k \in 2..Len(f.requests) :
              /\ f.requests[k].base = apiUrl
              /\ f.requests[k].path = CodePath
              /\ f.requests[k].query # NoQuery
              /\ f.responses[k - 1].kind = "body"
              /\ Str(QueryUnescape(f.requests[k].query))
                    = f.responses[k - 1].json.val["pagination"].val["next_key"]
        /\ f.pc = "resolved" =>
              /\ Len(f.responses) = Len(f.requests)
              /\ \A k \in DOMAIN f.responses : f.responses[k].kind = "body"
              /\ f.allContracts =
                    PagesInOrder(SelectSeq(f.responses,
                        LAMBDA r : "code_infos" \in Range(r.json.keys)))

\* C10: the first request carries no continuation token, each later one
\* carries exactly the next_key of the response before it, and the result is
\* the pages' code_infos concatenated in arrival order.
C10_TokensChainedPagesInOrder ==
    /\ FollowsProtocol(mfetch, apiBaseUrl)
    /\ FollowsProtocol(tfetch, apiTestnetBaseUrl)

\* A mainnet fetch has returned two records from two pages, the second
\* requested with a key that holds "+" and "/".
C10_Witness ==
    /\ mfetch.pc = "resolved"
    /\ Len(mfetch.requests) = 2
    /\ mfetch.responses[1].json.val["pagination"].val["next_key"] = Str(KeyPlus)
    /\ Len(mfetch.allContracts) = 2
    /\ mfetch.allContracts[1] # mfetch.allContracts[2]

-----------------------------------------------------------------------------
(* Verification runs repeated on one instance *)

MaxRuns == 2

\* The registry holds the first record, or none.
RerunFiles == {Arr(Selection(VerifyRecords, S)) : S \in {{}, {1}}}

RerunMainnetResponses ==
    {NetworkError, Body(CodePage(<<CodeInfo(Chars1, HashLowerA)>>, Null)),
     Body(CodePage(<<CodeInfo(Chars3, HashLowerA)>>, Null))}

RerunGovResponses == {NetworkError, Body(Obj(<<>>, <<>>))}

InitRerun ==
    /\ file \in RerunFiles
    /\ orig = file.items
    /\ damage = <<>>
    /\ data = NoData
    /\ jsonResults = InitJsonResults
    /\ jsonRet = "none"
    /\ mfetch = IdleFetch
    /\ tfetch = IdleFetch
    /\ gfetch = IdleGov
    /\ InitVerification
    /\ NotStarted
    /\ NotHashed

NextRerun ==
    \/ /\ runs < MaxRuns
       /\ verifyOnChainContracts
       /\ UNCHANGED <<ovars, hvars>>
    \/ \E resp \in RerunMainnetResponses :
          /\ MainnetResponse(resp)
          /\ UNCHANGED <<jvars, tfetch, gfetch, vvars, ovars, hvars>>
    \/ \E resp \in RerunGovResponses :
          /\ GovResponse(resp)
          /\ UNCHANGED <<jvars, mfetch, tfetch, vvars, ovars, hvars>>
    \/ verifyAfterPromiseAll /\ UNCHANGED <<ovars, hvars>>

SpecRerun == InitRerun /\ [][NextRerun]_vars

-----------------------------------------------------------------------------
(* Reconciliation *)

\* The last verifyOnChainContracts call has returned true
Succeeded == vpc = "done" /\ verRet = "true"

LocalRecords == localContracts.items
ChainRecords == mfetch.allContracts
Found == onChainVerification.discrepancies

Count(entries, Describes(_)) ==
    Cardinality({k \in DOMAIN entries : Describes(entries[k])})

Copies(records, r) == Cardinality({k \in DOMAIN records : records[k] = r})

CodeIdsOf(records) == {records[k].val["code_id"] : k \in DOMAIN records}

\* C5: after a successful verification every local record is matched by
\* code_id on the chain or listed once in missingFromChain, never both or
\* neither, and every on-chain record is matched by code_id in the registry or
\* listed once in missingFromJson, never both or neither.
C5_CoverageIsPartition ==
    Succeeded =>
        /\ \A i \in DOMAIN LocalRecords :
              LET r == LocalRecords[i]
                  listed == Count(Found.missingFromChain, LAMBDA e :
                                /\ e.codeId = r.val["code_id"]
                                /\ e.name = r.val["name"]
                                /\ e.hash = r.val["hash"])
              IN  IF r.val["code_id"] \in CodeIdsOf(ChainRecords)
                  THEN listed = 0
                  ELSE listed = Copies(LocalRecords, r)
        /\ \A j \in DOMAIN ChainRecords :
              LET c == ChainRecords[j]
                  listed == Count(Found.missingFromJson, LAMBDA e :
                                /\ e.codeId = c.val["code_id"]
                                /\ e.hash = toUpperCase(c.val["data_hash"])
                                /\ e.creator = c.val["creator"])
              IN  IF c.val["code_id"] \in CodeIdsOf(LocalRecords)
                  THEN listed = 0
                  ELSE listed = Copies(ChainRecords, c)
        /\ \A k \in DOMAIN Found.missingFromChain :
              Found.missingFromChain[k].codeId \in CodeIdsOf(LocalRecords)
        /\ \A k \in DOMAIN Found.missingFromJson :
              Found.missingFromJson[k].codeId \in CodeIdsOf(ChainRecords)

\* A run over two pages: the second page's record matches a local record,
\* the first page's record is missing from the registry, and another local
\* record is missing from the chain.
C5_Witness ==
    /\ Succeeded
    /\ Len(ChainRecords) = 2
    /\ ChainRecords[1].val["code_id"] \notin CodeIdsOf(LocalRecords)
    /\ ChainRecords[2].val["code_id"] \in CodeIdsOf(LocalRecords)
    /\ \E i \in DOMAIN LocalRecords :
          LocalRecords[i].val["code_id"] \notin CodeIdsOf(ChainRecords)
    /\ Len(Found.missingFromChain) = 1
    /\ Len(Found.missingFromJson) = 1

\* The on-chain records with the code_id of r
Counterparts(r) ==
    {ChainRecords[j] : j \in {k \in DOMAIN ChainRecords :
                                ChainRecords[k].val["code_id"] = r.val["code_id"]}}

SameIgnoringCase(a, b) == toUpperCase(a) = toUpperCase(b)

\* C6: after a successful verification hashMismatches holds one entry for a
\* local record whose on-chain counterpart has a hash that differs when
\* compared without regard to letter case, and none for a record without
\* counterpart or whose counterpart has the same hex digits in any case.
C6_MismatchesCompareIgnoringCase ==
    Succeeded =>
        \A i \in DOMAIN LocalRecords :
            LET r == LocalRecords[i]
                listed == Count(Found.hashMismatches, LAMBDA e :
                              /\ e.codeId = r.val["code_id"]
                              /\ e.name = r.val["name"]
                              /\ e.localHash = r.val["hash"])
            IN  /\ (\A c \in Counterparts(r) :
                        SameIgnoringCase(r.val["hash"], c.val["data_hash"]))
                      => listed = 0
                /\ (/\ Counterparts(r) # {}
                    /\ \A c \in Counterparts(r) :
                          ~SameIgnoringCase(r.val["hash"], c.val["data_hash"]))
                      => listed = Copies(LocalRecords, r)

NonEmptyCategories == {c \in Categories : Found[c] # <<>>}

\* C7: after a successful single verification the number of recommendations
\* equals the number of non-empty discrepancy categories among the six.
C7_OneRecommendationPerNonEmptyCategory ==
    (Succeeded /\ runs = 1) => Len(recommendations) = Cardinality(NonEmptyCategories)

\* C8: after any number of verification runs on one instance, a successful
\* last run leaves in results.recommendations exactly what that run's
\* discrepancies give rise to, with nothing kept from earlier runs.
C8_RecommendationsOfLastRunOnly ==
    Succeeded => recommendations = generateRecommendations(<<>>, Found)

LastFailed(responses) ==
    responses # <<>> /\ responses[Len(responses)].kind # "body"

\* C9: a failed mainnet code request on any page rejects the fetch, and the
\* verification then returns false with success = false without analysing;
\* a failed governance request ends the governance fetch with no proposals,
\* and a run whose load, mainnet fetch and analysis go through returns true
\* all the same.
C9_MainnetFailureAbortsGovernanceFailureDoesNot ==
    /\ LastFailed(mfetch.responses) => mfetch.pc = "rejected"
    /\ mfetch.pc = "rejected" =>
          /\ vpc \in {"all", "done"}
          /\ verRet # "true"
          /\ vpc = "done" => verRet = "false" /\ ~onChainVerification.success
    /\ LastFailed(gfetch.responses) =>
          /\ gfetch.pc = "done"
          /\ gfetch.proposals = <<>>
          /\ (/\ vpc = "done"
              /\ localContracts.t = "array"
              /\ mfetch.pc = "resolved"
              /\ Indexable(ChainRecords)
              /\ tfetch.pc = "resolved" => Indexable(tfetch.allContracts))
                => verRet = "true" /\ onChainVerification.success

\* The governance request failed, yet the run found the registry's one
\* record on the chain and returned true.
C9_Witness ==
    /\ LastFailed(gfetch.responses)
    /\ Succeeded
    /\ onChainVerification.success
    /\ Len(LocalRecords) >= 1
    /\ Len(ChainRecords) >= 1

-----------------------------------------------------------------------------
(* The constructor, validate() and main *)

\* options.name || false
OrFalse(v) == IF Truthy(v) THEN v ELSE Bool(FALSE)

\* new UnifiedValidator(options): the instance's own settings.  Nothing else
\* of options is read, and both endpoints are fixed.
UnifiedValidator(opts) ==
    LET o == IF opts.t = "undefined" THEN Obj(<<>>, <<>>) ELSE opts
    IN  Obj(<<"verbose", "validateOnly", "verifyOnly", "apiBaseUrl",
              "apiTestnetBaseUrl">>,
            [verbose |-> OrFalse(Get(o, "verbose")),
             validateOnly |-> OrFalse(Get(o, "validateOnly")),
             verifyOnly |-> OrFalse(Get(o, "verifyOnly")),
             apiBaseUrl |-> Text(apiBaseUrl),
             apiTestnetBaseUrl |-> Text(apiTestnetBaseUrl)])

HelpArgs == {"--help", "-h"}

\* main: the options after args.forEach, had no argument asked for help
parseArgs(args) ==
    Obj(<<"verbose", "validateOnly", "verifyOnly">>,
        [verbose |-> Bool(\E i \in DOMAIN args : args[i] \in {"--verbose", "-v"}),
         validateOnly |-> Bool(\E i \in DOMAIN args : args[i] = "--validate-only"),
         verifyOnly |-> Bool(\E i \in DOMAIN args : args[i] = "--verify-only")])

\* if (!this.verifyOnly)
runsValidation(v) == ~Truthy(Get(v, "verifyOnly"))

\* The verification phase entered only while success is still true.
runsVerificationWhileSuccessful(v, succ) ==
    succ /\ ~Truthy(Get(v, "validateOnly"))

\* if (!this.validateOnly)
runsVerification(v, succ) == ~Truthy(Get(v, "validateOnly"))

\* printResults reads summary.discrepancies when the verification is shown
printResultsThrows(v) ==
    /\ ~Truthy(Get(v, "validateOnly"))
    /\ onChainVerification.success
    /\ "discrepancies" \notin DOMAIN summary

\* Every run ends with code 0.
exitCodeZero(ret) == 0

\* process.exit(success ? 0 : 1)
exitCodeOf(ret) == IF ret = "true" THEN 0 ELSE 1

\* main up to validator.validate(): --help prints the usage and exits with 0
\* before a validator exists.
main ==
    /\ mpc = "idle"
    /\ IF \E i \in DOMAIN argv : argv[i] \in HelpArgs
       THEN /\ exitCode' = <<0>>
            /\ mpc' = "exited"
            /\ UNCHANGED <<options, validator>>
       ELSE /\ options' = parseArgs(argv)
            /\ validator' = UnifiedValidator(parseArgs(argv))
            /\ mpc' = "validate"
            /\ UNCHANGED exitCode
    /\ success' = TRUE
    /\ UNCHANGED <<argv, validateRet, jvars, fvars, vvars, hvars>>

\* validate(): success = await this.validateJsonStructure() && success
validatePhase ==
    /\ mpc = "validate"
    /\ mpc' = "verify"
    /\ IF runsValidation(validator)
       THEN /\ validateJsonStructure
            /\ success' = ((jsonRet' = "true") /\ success)
       ELSE UNCHANGED <<jvars, fvars, vvars, success>>
    /\ UNCHANGED <<argv, options, validator, validateRet, exitCode, hvars>>

\* validate(): the verification phase is entered, or skipped
verifyPhase ==
    /\ mpc = "verify"
    /\ IF runsVerification(validator, success)
       THEN /\ verifyOnChainContracts
            /\ mpc' = "verifying"
       ELSE /\ mpc' = "print"
            /\ UNCHANGED <<jvars, fvars, vvars>>
    /\ UNCHANGED <<argv, options, validator, success, validateRet, exitCode, hvars>>

\* validate(): success = await this.verifyOnChainContracts() && success
verifyPhaseReturns ==
    /\ mpc = "verifying"
    /\ vpc = "done"
    /\ success' = ((verRet = "true") /\ success)
    /\ mpc' = "print"
    /\ UNCHANGED <<argv, options, validator, validateRet, exitCode, jvars, fvars,
                   vvars, hvars>>

\* validate(): printResults(); return success -- or false from the catch
validateReturns ==
    /\ mpc = "print"
    /\ validateRet' = IF ~printResultsThrows(validator) /\ success
                      THEN "true" ELSE "false"
    /\ mpc' = "returned"
    /\ UNCHANGED <<argv, options, validator, success, exitCode, jvars, fvars,
                   vvars, hvars>>

\* main: process.exit(success ? 0 : 1)
mainExits ==
    /\ mpc = "returned"
    /\ exitCode' = <<exitCodeOf(validateRet)>>
    /\ mpc' = "exited"
    /\ UNCHANGED <<argv, options, validator, success, validateRet, jvars, fvars,
                   vvars, hvars>>

MaxArgs == 2

Flags == {"--validate-only", "--verify-only", "--help", "-v"}

MainTestnetResponses ==
    {NetworkError, Body(CodePage(<<CodeInfo(Chars5, HashLowerA)>>, Null))}

InitMain ==
    /\ file \in VerifyFiles
    /\ orig = IF file.t = "array" THEN file.items ELSE <<>>
    /\ damage = <<>>
    /\ data = NoData
    /\ jsonResults = InitJsonResults
    /\ jsonRet = "none"
    /\ mfetch = IdleFetch
    /\ tfetch = IdleFetch
    /\ gfetch = IdleGov
    /\ InitVerification
    /\ argv \in SeqsUpTo(Flags, MaxArgs)
    /\ options = EmptyObject
    /\ validator = NoValidator
    /\ mpc = "idle"
    /\ success = TRUE
    /\ validateRet = "none"
    /\ exitCode = <<>>
    /\ NotHashed

NextMain ==
    \/ main
    \/ validatePhase
    \/ verifyPhase
    \/ \E resp \in RerunMainnetResponses :
          /\ MainnetResponse(resp)
          /\ UNCHANGED <<jvars, tfetch, gfetch, vvars, ovars, hvars>>
    \/ \E resp \in RerunGovResponses :
          /\ GovResponse(resp)
          /\ UNCHANGED <<jvars, mfetch, tfetch, vvars, ovars, hvars>>
    \/ verifyAfterPromiseAll /\ UNCHANGED <<ovars, hvars>>
    \/ \E resp \in MainTestnetResponses :
          /\ TestnetResponse(resp)
          /\ UNCHANGED <<jvars, mfetch, gfetch, vvars, ovars, hvars>>
    \/ verifyAfterTestnet /\ UNCHANGED <<ovars, hvars>>
    \/ verifyPhaseReturns
    \/ validateReturns
    \/ mainExits

SpecMain == InitMain /\ [][NextMain]_vars

-----------------------------------------------------------------------------
(* The phases of a run and its exit code *)

ValidationRan == jsonRet # "none"
VerificationRan == runs > 0

FlagSet(name) == Truthy(Get(validator, name))

\* C11: validate() runs the validation phase unless verify-only is set and
\* the verification phase unless validate-only is set, the second also after
\* the first has failed, and it returns true exactly when every phase it ran
\* returned true (both phases, when neither flag is set).
C11_BothPhasesRunResultIsConjunction ==
    validateRet # "none" =>
        /\ ValidationRan <=> ~FlagSet("verifyOnly")
        /\ VerificationRan <=> ~FlagSet("validateOnly")
        /\ VerificationRan => vpc = "done" /\ runs = 1
        /\ (~FlagSet("verifyOnly") /\ ~FlagSet("validateOnly")) =>
              (validateRet = "true" <=> (jsonRet = "true" /\ verRet = "true"))
        /\ (FlagSet("validateOnly") /\ ~FlagSet("verifyOnly")) =>
              (validateRet = "true" <=> jsonRet = "true")
        /\ (FlagSet("verifyOnly") /\ ~FlagSet("validateOnly")) =>
              (validateRet = "true" <=> verRet = "true")

\* With neither flag set the validation failed, the verification still ran
\* and returned true, and validate() returned false.
C11_Witness ==
    /\ validateRet = "false"
    /\ ~FlagSet("verifyOnly")
    /\ ~FlagSet("validateOnly")
    /\ jsonRet = "false"
    /\ vpc = "done"
    /\ verRet = "true"

PhaseFailed ==
    \/ jsonRet = "false"
    \/ (VerificationRan /\ verRet = "false")

\* C12: the process exits with 0 exactly when no phase that ran failed, and
\* with 1 when the validation phase or the verification phase failed.
C12_ExitCodeReflectsPhases ==
    exitCode # <<>> =>
        /\ exitCode \in {<<0>>, <<1>>}
        /\ exitCode = <<0>> <=> ~PhaseFailed
        /\ exitCode = <<1>> <=> PhaseFailed

\* The validation passed, the verification failed, the exit code is 1.
C12_Witness ==
    /\ exitCode = <<1>>
    /\ jsonRet = "true"
    /\ VerificationRan
    /\ verRet = "false"

-----------------------------------------------------------------------------
(* Instances built from an options object *)

OptionKeys == <<"verbose", "validateOnly", "verifyOnly", "network">>

\* The object with the members of f that are not undefined
ObjectOf(f) ==
    Obj(SelectSeq(OptionKeys, LAMBDA k : f[k].t # "undefined"),
        [k \in {n \in DOMAIN f : f[n].t # "undefined"} |-> f[k]])

OptionObjects ==
    {ObjectOf(f) :
        f \in [verbose : {Undefined, Bool(TRUE)},
               validateOnly : {Undefined, Bool(TRUE), Bool(FALSE)},
               verifyOnly : {Undefined, Bool(TRUE), Bool(FALSE)},
               network : {Undefined, Text("mainnet"), Text("testnet")}]}
        \cup {Undefined}

InitNew ==
    /\ orig = <<>>
    /\ file = Unreadable
    /\ damage = <<>>
    /\ data = NoData
    /\ jsonResults = InitJsonResults
    /\ jsonRet = "none"
    /\ mfetch = IdleFetch
    /\ tfetch = IdleFetch
    /\ gfetch = IdleGov
    /\ InitVerification
    /\ argv = <<>>
    /\ options \in OptionObjects
    /\ validator = NoValidator
    /\ mpc = "idle"
    /\ success = TRUE
    /\ validateRet = "none"
    /\ exitCode = <<>>
    /\ NotHashed

\* new UnifiedValidator(options)
construct ==
    /\ validator = NoValidator
    /\ validator' = UnifiedValidator(options)
    /\ UNCHANGED <<argv, options, mpc, success, validateRet, exitCode, jvars,
                   fvars, vvars, hvars>>

NextNew == construct

SpecNew == InitNew /\ [][NextNew]_vars

Selects(network, endpoint) ==
    (validator # NoValidator /\ Get(options, "network") = Text(network)) =>
        /\ Get(validator, "network") = Text(network)
        /\ Get(validator, "apiBaseUrl") = Text(endpoint)

\* C13: an instance built with options.network = 'mainnet' has network
\* 'mainnet' and the mainnet endpoint as apiBaseUrl, and one built with
\* options.network = 'testnet' has network 'testnet' and the testnet endpoint
\* as apiBaseUrl.
C13_NetworkSelectsEndpoint ==
    /\ Selects("mainnet", apiBaseUrl)
    /\ Selects("testnet", apiTestnetBaseUrl)

-----------------------------------------------------------------------------
(* Governance attribution *)

Proposals == gfetch.proposals

\* The hashes of the code-upload payloads of proposal p
UploadHashes(p) ==
    IF Get(p, "messages").t # "array" THEN {}
    ELSE LET msgs == Get(p, "messages").items
         IN  {calculateWasmHash(Get(msgs[k], "wasm_byte_code")) :
                k \in {n \in DOMAIN msgs : Get(msgs[n], "@type") = MsgStoreCode}}
                \ {Null}

Uploaders(r) ==
    {k \in DOMAIN Proposals : r.val["hash"] \in UploadHashes(Proposals[k])}

IsGenesis(r) == r.val["governance"] = Str(GenesisChars)

GovernanceEntries(r) ==
    {k \in DOMAIN Found.governanceIssues :
        /\ Found.governanceIssues[k].codeId = r.val["code_id"]
        /\ Found.governanceIssues[k].name = r.val["name"]
        /\ Found.governanceIssues[k].hash = r.val["hash"]}

\* C14: after a successful verification a Genesis record whose hash is the
\* hash of a fetched proposal's code-upload payload has exactly one entry in
\* governanceIssues, with the id, title and (readable) status of such a
\* proposal; a Genesis record whose hash no payload gives has none.
C14_GenesisUploadedByProposalFlaggedOnce ==
    Succeeded =>
        \A i \in DOMAIN LocalRecords :
            LET r == LocalRecords[i]
            IN  IsGenesis(r) =>
                  IF Uploaders(r) = {}
                  THEN GovernanceEntries(r) = {}
                  ELSE /\ Cardinality(GovernanceEntries(r)) = Copies(LocalRecords, r)
                       /\ \A k \in GovernanceEntries(r) :
                            \E u \in Uploaders(r) :
                              LET info == Found.governanceIssues[k].proposal
                              IN  /\ info.proposalId = Get(Proposals[u], "id")
                                  /\ info.proposalTitle = Get(Proposals[u], "title")
                                  /\ info.status =
                                        getStatusString(Get(Proposals[u], "status"))

\* A run over two Genesis records: the one whose hash proposal 7 uploaded is
\* flagged with that proposal, the other is not.
C14_Witness ==
    /\ Succeeded
    /\ Len(LocalRecords) = 2
    /\ \A i \in DOMAIN LocalRecords : IsGenesis(LocalRecords[i])
    /\ Uploaders(LocalRecords[1]) # {}
    /\ Uploaders(LocalRecords[2]) = {}
    /\ Len(Found.governanceIssues) = 1
    /\ Found.governanceIssues[1].proposal.proposalId = Text("7")
    /\ Found.governanceIssues[1].proposal.status = Text("Passed")

ReportedSomewhere(r) ==
    \E c \in Categories :
        \E k \in DOMAIN Found[c] : Found[c][k].codeId = r.val["code_id"]

\* C15: after a successful verification a record whose governance names a
\* proposal, while its hash is the hash of the code-upload payload of a
\* fetched proposal with another id, is reported in some discrepancy category.
C15_WrongProposalReferenceReported ==
    Succeeded =>
        \A i \in DOMAIN LocalRecords :
            LET r == LocalRecords[i]
            IN  (/\ ~IsGenesis(r)
                 /\ Uploaders(r) # {}
                 /\ \A u \in Uploaders(r) :
                        Get(Proposals[u], "id") # r.val["governance"])
                  => ReportedSomewhere(r)

-----------------------------------------------------------------------------
(* The registry is only read *)

\* C16: at every point of a verification run, successful or failed, the
\* collection in memory holds the registry's records with their fields and in
\* their order as loaded, and the registry file is as it was before the run.
C16_RegistryNeverMutated ==
    /\ file.t = "array" => file.items = orig
    /\ file.t # "array" => orig = <<>>
    /\ localContracts # NoData => localContracts = file

\* A run over two records has returned true with discrepancies found, the
\* collection in memory and the file being what they were.
C16_Witness ==
    /\ Succeeded
    /\ Len(LocalRecords) = 2
    /\ LocalRecords[1] # LocalRecords[2]
    /\ NonEmptyCategories # {}
    /\ LocalRecords = orig
    /\ file = Arr(orig)

-----------------------------------------------------------------------------
(* calculateWasmHash on its own: one payload, hashed repeatedly by one      *)
(* validator.                                                                *)

MaxPayloadLen == 4
MaxCalls == 2

\* "H4sI" is the base64 text of the gzip header 1f 8b 08.
GzipPrefix == <<"H", "4", "s", "I">>

PayloadAlphabet == {"A", "C", "g", "o", "="}

RECURSIVE CharSeqs(_)
CharSeqs(n) ==
    IF n = 0 THEN {<<>>}
    ELSE LET shorter == CharSeqs(n - 1)
         IN  shorter \cup {Append(w, c) : w \in {x \in shorter : Len(x) = n - 1},
                                          c \in PayloadAlphabet}

Payloads ==
    {Str(w) : w \in CharSeqs(MaxPayloadLen)}
        \cup {Str(GzipPrefix \o w) : w \in CharSeqs(MaxPayloadLen)}
        \cup {Undefined, Null, Num(7)}

InitHash ==
    /\ orig = <<>>
    /\ file = Arr(orig)
    /\ damage = <<>>
    /\ data = NoData
    /\ jsonResults = InitJsonResults
    /\ jsonRet = "none"
    /\ mfetch = IdleFetch
    /\ tfetch = IdleFetch
    /\ gfetch = IdleGov
    /\ InitVerification
    /\ NotStarted
    /\ wasmCode \in Payloads
    /\ wasmHash = <<>>

calculateWasmHashCall ==
    /\ Len(wasmHash) < MaxCalls
    /\ wasmHash' = Append(wasmHash, calculateWasmHash(wasmCode))
    /\ UNCHANGED <<wasmCode, jvars, fvars, vvars, ovars>>

NextHash == calculateWasmHashCall

SpecHash == InitHash /\ [][NextHash]_vars

\* The gzip stream of a content: header, the content, its checksum.
Gzip(content) == GzipHeader \o content \o <<SumBytes(content) % 256>>

\* The contents whose gzip stream is the given bytes (none: not a stream).
Gunzipped(bytes) ==
    {c \in {SubSeq(bytes, i, j) : i \in 1..Len(bytes) + 1, j \in 0..Len(bytes)} :
        Gzip(c) = bytes}

UpperHexDigits == Range(DigitAlphabet) \cup UpperHexLetters

\* What the claim lets a call on a string payload return.
WasmHashOf(payload) ==
    LET raw == BufferFromBase64(payload.s)
    IN  IF Gunzipped(raw) # {}
        THEN {toUpperCase(sha256hex(c)) : c \in Gunzipped(raw)}
        ELSE {toUpperCase(sha256hex(raw))}

-----------------------------------------------------------------------------
(* validateJson on object nodes: one record, its keys added and removed *)

RequiredOfRecord ==
    {"name", "description", "code_id", "hash", "release", "author",
     "governance", "deprecated"}

TestnetWith(testnet) == WithKey(GoodRecord(Chars1), "testnet", testnet)

\* One record per way of keeping or breaking the key sets: a required key
\* removed at each node, an undeclared key added at each node (own names and
\* names Object.prototype also carries), the optional key present and absent.
ObjectRecords ==
    {GoodRecord(Chars1), TestnetWith(TestnetConfig(Chars2, HashLowerA))}
        \cup {WithoutKey(GoodRecord(Chars1), k) : k \in RequiredOfRecord}
        \cup {WithKey(GoodRecord(Chars1), k, Str(<<"n">>)) :
                k \in {"notes", "constructor", "__proto__"}}
        \cup {WithKey(GoodRecord(Chars1), "release",
                      Obj(<<"url">>, [url |-> Str(SomeUrl)])),
              WithPath(GoodRecord(Chars1), <<"author", "email">>, Str(<<"e">>)),
              TestnetWith(WithoutKey(TestnetConfig(Chars2, HashA), "network")),
              TestnetWith(WithKey(TestnetConfig(Chars2, HashA), "toString",
                                  Str(<<"n">>))),
              TestnetWith(Null),
              TestnetWith(Obj(<<>>, <<>>))}

InitObject ==
    /\ orig \in {<<r>> : r \in ObjectRecords}
    /\ file = Arr(orig)
    /\ damage = <<>>
    /\ data = NoData
    /\ jsonResults = InitJsonResults
    /\ jsonRet = "none"
    /\ mfetch = IdleFetch
    /\ tfetch = IdleFetch
    /\ gfetch = IdleGov
    /\ InitVerification
    /\ NotStarted
    /\ NotHashed

SpecObject == InitObject /\ [][NextJson]_vars

\* The key sets the schemas declare for each object node of a record.
NodeRequired ==
    [record |-> RequiredOfRecord,
     release |-> {"url", "version"},
     author |-> {"name", "url"},
     testnet |-> {"code_id", "hash", "network", "deployed_by", "deployed_at"}]

NodeOptional ==
    [record |-> {"testnet"}, release |-> {}, author |-> {}, testnet |-> {}]

\* The object nodes validateJson is called on for a record: the record and
\* each of its sub-records that is an object.
ObjectNodes(rec) ==
    {<<"record", rec>>}
        \cup {<<k, rec.val[k]>> :
                k \in {k \in {"release", "author", "testnet"} :
                            k \in Range(rec.keys) /\ rec.val[k].t = "object"}}

LacksRequired(rec) ==
    \E n \in ObjectNodes(rec) : ~(NodeRequired[n[1]] \subseteq Range(n[2].keys))

HasUndeclared(rec) ==
    \E n \in ObjectNodes(rec) :
        ~(Range(n[2].keys) \subseteq NodeRequired[n[1]] \cup NodeOptional[n[1]])

OneRecord == Validated /\ data.t = "array" /\ Len(data.items) = 1

\* C18: a record with a required key absent at one of its object nodes, or
\* with a key no schema declares, is refused; a testnet sub-record that is
\* present is held to its schema; a record that conforms and has no testnet
\* key is accepted.
C18_ObjectValidationIsAllowList ==
    OneRecord =>
        LET rec == data.items[1]
        IN  /\ (LacksRequired(rec) \/ HasUndeclared(rec)) => jsonRet = "false"
            /\ ("testnet" \in Range(rec.keys) /\ jsonRet = "true") =>
                    TestnetConforms(rec.val["testnet"])
            /\ ("testnet" \notin Range(rec.keys) /\ RecordConforms(rec)) =>
                    jsonRet = "true"

\* A record whose only defect is the undeclared key "notes" has been refused.
C18_Witness ==
    /\ OneRecord
    /\ damage = <<>>
    /\ HasUndeclared(data.items[1])
    /\ ~LacksRequired(data.items[1])
    /\ RecordConforms(WithoutKey(data.items[1], "notes"))
    /\ jsonRet = "false"

-----------------------------------------------------------------------------
(* Priorities and counts of the recommendations *)

HighTypes == {"missing_from_json", "hash_mismatch"}

\* The category a recommendation type speaks of.
CategoryOf(type) ==
    CASE type = "missing_from_json" -> "missingFromJson"
      [] type = "missing_from_chain" -> "missingFromChain"
      [] type = "hash_mismatch" -> "hashMismatches"
      [] type = "governance_issue" -> "governanceIssues"
      [] type = "deprecated_issue" -> "deprecatedIssues"
      [] type = "testnet_issue" -> "testnetIssues"

\* The words around the count in each message.
Wordings ==
    {<<"Add ", " missing contracts to contracts.json">>,
     <<"Remove ", " contracts from contracts.json that no longer exist on-chain">>,
     <<"Fix ", " hash mismatches between JSON and on-chain data">>,
     <<"Review ", " contracts marked as Genesis but uploaded via proposals">>,
     <<"Fix ", " testnet configuration issues">>}

MentionsCount(message, n) ==
    \E w \in Wordings : message = w[1] \o ToString(n) \o w[2]

\* C19: after a successful single verification every recommendation of type
\* missing_from_json or hash_mismatch has priority high, every other one has
\* priority medium, and each message carries the number of entries of its
\* category.
C19_PriorityFixedMessageCarriesCount ==
    (Succeeded /\ runs = 1) =>
        \A k \in DOMAIN recommendations :
            LET r == recommendations[k]
            IN  /\ r.priority = (IF r.type \in HighTypes THEN "high" ELSE "medium")
                /\ MentionsCount(r.message, Len(Found[CategoryOf(r.type)]))

\* A run has produced a high and a medium recommendation, one of them for a
\* category of two entries.
C19_Witness ==
    /\ Succeeded
    /\ runs = 1
    /\ \E j, k \in DOMAIN recommendations :
          /\ recommendations[j].priority = "high"
          /\ recommendations[k].priority = "medium"
          /\ Len(Found[CategoryOf(recommendations[k].type)]) = 2
    /\ \E k \in DOMAIN recommendations :
          Len(Found[CategoryOf(recommendations[k].type)]) = 1

-----------------------------------------------------------------------------
(* Testnet hashes *)

TestnetRecords == tfetch.allContracts

\* The testnet records with the code_id of a testnet sub-record
TestnetCounterparts(config) ==
    {TestnetRecords[j] : j \in {k \in DOMAIN TestnetRecords :
                                  TestnetRecords[k].val["code_id"] = config.val["code_id"]}}

\* C20: after a successful verification no testnet hash mismatch is reported
\* for a local record whose testnet sub-record satisfies its schema and whose
\* testnet hash has the hex digits of the testnet record with its code_id, in
\* whatever letter case.
C20_TestnetHashesCompareIgnoringCase ==
    Succeeded =>
        \A i \in DOMAIN LocalRecords :
            LET r == LocalRecords[i]
            IN  (/\ "testnet" \in Range(r.keys)
                 /\ TestnetConforms(r.val["testnet"])
                 /\ TestnetCounterparts(r.val["testnet"]) # {}
                 /\ \A c \in TestnetCounterparts(r.val["testnet"]) :
                        SameIgnoringCase(r.val["testnet"].val["hash"],
                                         c.val["data_hash"]))
                    => Count(Found.testnetIssues, LAMBDA e :
                                /\ e.codeId = r.val["code_id"]
                                /\ e.issue = "Testnet hash mismatch") = 0

-----------------------------------------------------------------------------
(* The two kinds of testnet entry *)

TestnetFetched == tfetch.pc = "resolved"

TestnetEntries(r, issue) ==
    Count(Found.testnetIssues, LAMBDA e :
            /\ e.codeId = r.val["code_id"]
            /\ e.name = r.val["name"]
            /\ e.issue = issue)

NotFoundIssue == "Testnet contract not found on testnet"
MismatchIssue == "Testnet hash mismatch"

\* C21: after a successful verification whose testnet fetch succeeded, a
\* local record with a testnet sub-record has one "not found" entry exactly
\* when no testnet record has the sub-record's code_id, one "hash mismatch"
\* entry exactly when such a record exists and its hash differs (letter case
\* apart), and no other entry; a record without sub-record has none.
C21_TestnetEntryKinds ==
    (Succeeded /\ TestnetFetched) =>
        \A i \in DOMAIN LocalRecords :
            LET r == LocalRecords[i]
                copies == Copies(LocalRecords, r)
            IN  IF "testnet" \notin Range(r.keys)
                THEN TestnetEntries(r, NotFoundIssue) + TestnetEntries(r, MismatchIssue) = 0
                ELSE LET config == r.val["testnet"]
                         absent == TestnetCounterparts(config) = {}
                         differs == \E c \in TestnetCounterparts(config) :
                                      ~SameIgnoringCase(config.val["hash"],
                                                        c.val["data_hash"])
                     IN  /\ TestnetEntries(r, NotFoundIssue)
                                = (IF absent THEN copies ELSE 0)
                         /\ TestnetEntries(r, MismatchIssue)
                                = (IF differs THEN copies ELSE 0)

-----------------------------------------------------------------------------
(* Pagination ends *)

\* Every request in flight is answered in the end.
SpecFetchFair ==
    /\ SpecFetch
    /\ WF_vars(\E resp \in AllResponses :
                  /\ MainnetResponse(resp)
                  /\ UNCHANGED <<jvars, tfetch, gfetch, vvars, ovars, hvars>>)
    /\ WF_vars(\E resp \in AllResponses :
                  /\ TestnetResponse(resp)
                  /\ UNCHANGED <<jvars, mfetch, gfetch, vvars, ovars, hvars>>)

\* The response is a page that names a next page.
CarriesNextKey(resp) ==
    /\ resp.kind = "body"
    /\ "pagination" \in Range(resp.json.keys)
    /\ resp.json.val["pagination"].val["next_key"].t = "string"
    /\ resp.json.val["pagination"].val["next_key"].s # <<>>

IsPage(resp) == resp.kind = "body"

\* One request at least; a further request only after a page naming a next
\* page; returned exactly when the last response is a page naming none.
StopsAtFirstPageWithoutKey(f) ==
    f.pc # "idle" =>
        /\ Len(f.requests) >= 1
        /\ \A k \in 1..Len(f.responses) - 1 : CarriesNextKey(f.responses[k])
        /\ f.pc = "waiting" <=>
              /\ Len(f.requests) = Len(f.responses) + 1
              /\ \A k \in DOMAIN f.responses : CarriesNextKey(f.responses[k])
        /\ f.pc = "resolved" <=>
              /\ Len(f.requests) = Len(f.responses)
              /\ IsPage(f.responses[Len(f.responses)])
              /\ ~CarriesNextKey(f.responses[Len(f.responses)])
        /\ f.pc = "rejected" <=>
              /\ Len(f.requests) = Len(f.responses)
              /\ ~IsPage(f.responses[Len(f.responses)])

Settled(f) == f.pc \in {"resolved", "rejected"}

\* C22: a fetch issues one request at least, asks for a further page only
\* after a page that names one, has returned after exactly n requests when
\* the n-th response is the first page naming no next page, and, every
\* request being answered, comes to its end.
C22_PaginationTerminates ==
    /\ [](StopsAtFirstPageWithoutKey(mfetch) /\ StopsAtFirstPageWithoutKey(tfetch))
    /\ (mfetch.pc = "waiting") ~> Settled(mfetch)
    /\ (tfetch.pc = "waiting") ~> Settled(tfetch)

\* A mainnet fetch has returned after two requests, the first page naming a
\* next page and the second none.
C22_Witness ==
    /\ mfetch.pc = "resolved"
    /\ Len(mfetch.requests) = 2
    /\ CarriesNextKey(mfetch.responses[1])
    /\ ~CarriesNextKey(mfetch.responses[2])

-----------------------------------------------------------------------------
(* The three sources are read side by side and joined *)

Loaded == localContracts # NoData

\* What the answers received by each fetch amount to
PagesReceived(f) ==
    PagesInOrder(SelectSeq(f.responses, LAMBDA r :
        r.kind = "body" /\ "code_infos" \in Range(r.json.keys)))

ProposalsReceived ==
    IF /\ gfetch.responses # <<>>
       /\ gfetch.responses[1].kind = "body"
       /\ "proposals" \in Range(gfetch.responses[1].json.keys)
    THEN gfetch.responses[1].json.val["proposals"].items
    ELSE <<>>

Reconciled == onChainVerification.discrepancies # EmptyObject

\* C23: once a fetch is under way the registry has been loaded and both the
\* mainnet and the proposals request are out; discrepancies are computed only
\* when the load, the mainnet fetch and the proposals fetch are all done; each
\* result holds what its own source answered, and the discrepancies are those
\* of these three results (and the testnet records), whatever the order the
\* answers came in.
C23_FanOutFanIn ==
    /\ (mfetch.pc # "idle" \/ gfetch.pc # "idle") =>
            /\ Loaded
            /\ Len(mfetch.requests) >= 1
            /\ Len(gfetch.requests) >= 1
    /\ (vpc = "testnet" \/ Reconciled) =>
            /\ Loaded
            /\ mfetch.pc = "resolved"
            /\ gfetch.pc = "done"
    /\ Loaded => localContracts = file
    /\ mfetch.pc = "resolved" => mfetch.allContracts = PagesReceived(mfetch)
    /\ gfetch.pc = "done" => gfetch.proposals = ProposalsReceived
    /\ Succeeded =>
            Found = analyzeDiscrepancies(file.items, PagesReceived(mfetch),
                        ProposalsReceived,
                        IF tfetch.pc = "resolved" THEN PagesReceived(tfetch)
                        ELSE <<>>)

\* A run has joined a registry of two records, two mainnet pages and two
\* proposals, and found discrepancies.
C23_Witness ==
    /\ Succeeded
    /\ Len(LocalRecords) = 2
    /\ Len(mfetch.responses) = 2
    /\ Len(PagesReceived(mfetch)) = 2
    /\ Len(ProposalsReceived) = 2
    /\ NonEmptyCategories # {}

-----------------------------------------------------------------------------
(* A failed run *)

Failed == vpc = "done" /\ verRet = "false"

\* C24: after the first verification on an instance has failed, at whatever
\* point, success is false, discrepancies and summary are the empty objects
\* of the constructor, and there is no recommendation.
C24_FailureLeavesNoPartialResults ==
    (Failed /\ runs = 1) =>
        /\ onChainVerification.success = FALSE
        /\ onChainVerification.discrepancies = EmptyObject
        /\ summary = EmptyObject
        /\ recommendations = <<>>

\* The run failed in the analysis: the registry was loaded with records and
\* both fetches had returned.
C24_Witness ==
    /\ Failed
    /\ runs = 1
    /\ Loaded
    /\ file.t = "array"
    /\ file.items # <<>>
    /\ mfetch.pc = "resolved"
    /\ gfetch.pc = "done"

-----------------------------------------------------------------------------
(* Store messages whose payload cannot be hashed *)

MaxMessages == 2

\* The <<proposal, message>> positions (1-based) of the store messages for
\* which calculateWasmHash returns null.
Unhashed ==
    {pm \in {<<p, m>> : p \in DOMAIN Proposals, m \in 1..MaxMessages} :
        /\ Get(Proposals[pm[1]], "messages").t = "array"
        /\ pm[2] \in DOMAIN Get(Proposals[pm[1]], "messages").items
        /\ LET msg == Get(Proposals[pm[1]], "messages").items[pm[2]]
           IN  /\ Get(msg, "@type") = MsgStoreCode
               /\ calculateWasmHash(Get(msg, "wasm_byte_code")) = Null}

\* The run meets nothing else that throws: the registry is an array, the
\* mainnet fetch returned, and every fetched code record has a data_hash.
NothingThrows ==
    /\ file.t = "array"
    /\ mfetch.pc = "resolved"
    /\ \A k \in DOMAIN mfetch.allContracts :
          "data_hash" \in Range(mfetch.allContracts[k].keys)
    /\ tfetch.pc = "resolved" =>
          \A k \in DOMAIN tfetch.allContracts :
              "data_hash" \in Range(tfetch.allContracts[k].keys)

\* C25: when the proposals hold a store message that cannot be hashed, the
\* run still returns true if nothing else fails, no governance entry names
\* that message, and every Genesis record whose hash another message uploads
\* is still flagged.
C25_UnhashablePayloadIsSkipped ==
    (vpc = "done" /\ gfetch.pc = "done" /\ Unhashed # {} /\ NothingThrows) =>
        /\ verRet = "true"
        /\ \A k \in DOMAIN Found.governanceIssues :
              \A pm \in Unhashed :
                  ~(/\ Found.governanceIssues[k].proposal.proposalId
                            = Get(Proposals[pm[1]], "id")
                    /\ Found.governanceIssues[k].proposal.messageIndex = pm[2])
        /\ \A i \in DOMAIN LocalRecords :
              (IsGenesis(LocalRecords[i]) /\ Uploaders(LocalRecords[i]) # {})
                  => GovernanceEntries(LocalRecords[i]) # {}

\* Proposal 9's first store message has no payload; its second one uploaded
\* the hash of a Genesis record, which is flagged with message index 2.
C25_Witness ==
    /\ Succeeded
    /\ <<1, 1>> \in Unhashed
    /\ Len(Found.governanceIssues) >= 1
    /\ Found.governanceIssues[1].proposal.proposalId = Text("9")
    /\ Found.governanceIssues[1].proposal.messageIndex = 2

-----------------------------------------------------------------------------
(* Numeric code_ids of an accepted collection *)

Accepted == Validated /\ jsonRet = "true" /\ data.t = "array"

\* C26: in a collection validateJson accepts, the numbers the code_ids denote
\* are strictly increasing, so no two records denote the same number.
C26_AcceptedCodeIdsStrictlyIncrease ==
    Accepted =>
        \A i, j \in DOMAIN data.items :
            i < j => DecimalValue(CodeIdOf(data.items[i]))
                        < DecimalValue(CodeIdOf(data.items[j]))

-----------------------------------------------------------------------------
(* validateJsonStructure called again and again on one instance, the file   *)
(* being rewritten in between                                                *)

MaxErrors == 2

RevalidateFiles ==
    {Unreadable, Arr(<<>>), Arr(<<GoodRecord(Chars1)>>),
     Arr(<<GoodRecord(Chars1), GoodRecord(Chars2)>>),
     Arr(<<WithoutKey(GoodRecord(Chars2), "author")>>),
     Arr(<<GoodRecord(Chars2), GoodRecord(Chars1)>>)}

InitRevalidate ==
    /\ file \in RevalidateFiles
    /\ orig = IF file.t = "array" THEN file.items ELSE <<>>
    /\ damage = <<>>
    /\ data = NoData
    /\ jsonResults = InitJsonResults
    /\ jsonRet = "none"
    /\ mfetch = IdleFetch
    /\ tfetch = IdleFetch
    /\ gfetch = IdleGov
    /\ InitVerification
    /\ NotStarted
    /\ NotHashed

\* contracts.json is rewritten between two calls.
rewriteContractsJson(f) ==
    /\ jsonRet # "none"
    /\ f # file
    /\ file' = f
    /\ orig' = IF f.t = "array" THEN f.items ELSE <<>>
    /\ UNCHANGED <<damage, data, jsonResults, jsonRet, fvars, vvars>>

NextRevalidate ==
    \/ \E f \in RevalidateFiles :
          rewriteContractsJson(f) /\ UNCHANGED <<ovars, hvars>>
    \/ /\ Len(jsonResults.errors) < MaxErrors
       /\ validateJsonStructure
       /\ UNCHANGED <<ovars, hvars>>

SpecRevalidate == InitRevalidate /\ [][NextRevalidate]_vars

\* C27: after any number of validateJsonStructure calls on one instance,
\* valid is true exactly when the error list is empty.
C27_ValidIffNoErrors ==
    Validated => (jsonResults.valid <=> jsonResults.errors = <<>>)

-----------------------------------------------------------------------------
(* A run in which no phase ran *)

\* C28: validate() returns true only if a phase ran and returned true.
C28_SuccessNeedsAPhase ==
    validateRet = "true" =>
        \/ ValidationRan /\ jsonRet = "true"
        \/ VerificationRan /\ verRet = "true"

-----------------------------------------------------------------------------
(* Discrepancies do not fail the phase *)

\* C29: a verification in which the registry was loaded, the mainnet fetch
\* returned and nothing threw in the analysis returns true with success set,
\* however many discrepancies it found; with a validation phase that did not
\* fail, validate() then returns true as well.
C29_DiscrepanciesAreAdvisory ==
    /\ (vpc = "done" /\ NothingThrows) =>
            /\ verRet = "true"
            /\ onChainVerification.success = TRUE
            /\ Reconciled
    /\ (validateRet # "none" /\ verRet = "true" /\ jsonRet # "false") =>
            validateRet = "true"

\* A run has returned true with entries in three categories at least.
C29_Witness ==
    /\ Succeeded
    /\ NothingThrows
    /\ Cardinality(NonEmptyCategories) >= 3
    /\ onChainVerification.success = TRUE

-----------------------------------------------------------------------------
(* "Not found" on testnet *)

\* C30: after a successful verification a "not found" testnet entry for a
\* local record means that the testnet fetch returned and that none of the
\* records it returned has the code_id of the record's testnet sub-record.
C30_NotFoundMeansAbsent ==
    Succeeded =>
        \A i \in DOMAIN LocalRecords :
            LET r == LocalRecords[i]
            IN  TestnetEntries(r, NotFoundIssue) > 0 =>
                    /\ TestnetFetched
                    /\ TestnetCounterparts(r.val["testnet"]) = {}

====
